---- MODULE Spec2Model ----
(***************************************************************************)
(* A model of the MwCAS benchmark's lock-free queues, its MwCAS workers    *)
(* and the epoch-based reclamation they rely on.                           *)
(*                                                                         *)
(* Memory is one array of words, mem.  A word holds a plain value (a node  *)
(* pointer or a counter, >= 0) or an encoded descriptor reference (< 0).   *)
(* Every shared-memory access of the code is one action.                   *)
(***************************************************************************)
EXTENDS Integers, Sequences, FiniteSets, TLC

(***************************************************************************)
(* Bounds of the model.                                                    *)
(***************************************************************************)
NumThreads == 2
MaxOps == 2
MaxNode == 3
MaxEpoch == 2
MaxDesc == 3
NumFields == 3
\* the size of an operation's target array (MWCAS_BENCH_MAX_FIELD_NUM)
kMaxTargetNum == 3
\* the number of operations every worker executes
operation_counts == 1
\* the most worker threads a modelled run of the benchmark has
MaxThreadNum == 6
\* the most worker threads in a run that exercises the barrier
MaxBenchThreads == 3
\* the most operations in a run that exercises the barrier
MaxBenchExec == 4
\* the latencies a worker records are 1..MaxLatency
MaxLatency == 3

Threads == 1..NumThreads
DescIds == 1..MaxDesc
NodeIds == 1..MaxNode

\* nullptr
kNullNode == 0
\* the addresses of the queue's two pointer members; node n's next field is
\* at address n
FrontAddr == MaxNode + 1
BackAddr == MaxNode + 2
Addrs == 1..(MaxNode + 2)

\* life[n]: the allocation state of node n; a value >= 0 is the epoch at
\* which the node was handed to AddGarbage
Free == -2
Live == -1

\* guard[t] when thread t holds no epoch guard (active = false)
NoGuard == -1
\* the result of a pop on an empty queue (std::nullopt)
None == 0

VARIABLES
    kind,           \* the queue implementation under test
    mem,            \* the words: front_, back_ and every node's next
    elem,           \* every node's elem
    life,           \* every node's allocation state
    nalloc,         \* the number of node addresses handed out so far
    epoch_counter,  \* EBR: the global epoch
    guard,          \* EBR: per thread, the epoch published by its guard
    pc,             \* per thread, the position inside push/pop
    x,              \* per thread, push's argument
    new_node,       \* per thread, push's new_node
    back,           \* per thread, push's back
    next,           \* per thread, push's next
    front,          \* per thread, pop's front
    new_front,      \* per thread, pop's new_front
    desc,           \* MwCAS: the descriptor pool
    own,            \* MwCAS: per thread, the descriptor of its own MwCAS call
    hstack,         \* MwCAS: per thread, the descriptors it is driving (helping)
    word,           \* per thread, the raw word a protected read has loaded
    ops,            \* per thread, the number of operations invoked
    stale,          \* per thread, held nodes that were reclaimed meanwhile
    uaf,            \* some thread dereferenced a freed or reused node
    npush,          \* the number of push calls invoked (the values pushed)
    done,           \* the values whose push has returned
    before,         \* <<a, b>>: push(a) returned before push(b) was invoked
    ret,            \* per thread, the results of its pops, in order
    phased,         \* no pop was invoked before every push had returned
    empty_ret,      \* per thread, the result of its last empty()
    target_num_,    \* Worker: the number of targets of each operation
    operations_,    \* Worker: per worker, the target lists of its operations
    idx,            \* Worker: per worker, PerformMwCAS's loop index i
    old_val,        \* Worker<SingleCAS>: per worker, old_val
    new_desc,       \* Worker<MwCAS>: per worker, the targets added to desc
    wild,           \* a worker dereferenced an address that is no target field
    old_node,       \* container queues: per thread, old_node
    prev_node,      \* container QueueCAS: per thread, push's prev_node
    tail_node,      \* container QueueMwCAS: per thread, push's tail_node
    dummy_node,     \* container QueueMwCAS: per thread, pop's dummy_node
    head_node,      \* container QueueMwCAS: per thread, pop's head_node
    thread_num_,    \* MwCASBench: the number of execution threads
    exec_num_,      \* MwCASBench: the total number of operations
    prefer_writer,  \* whether std::shared_mutex holds readers behind a writer
    mutex_1st,      \* the shared mutex workers hold while they measure
    mutex_2nd,      \* the shared mutex workers hold to create and to sort
    main_pc,        \* the position of main inside RunMwCASBench
    w_pc,           \* per worker thread, the position inside RunWorker
    w_exec,         \* per worker thread, the operations it has measured
    promise,        \* the worker threads that have set their promise
    results,        \* the number of futures main has obtained
    latencies,      \* per worker, exec_times_nano_ after SortExecutionTimes
    indexes,        \* LogLatency: per worker, the index of its next latency
    count,          \* LogLatency: the loop variable count
    lat,            \* LogLatency: lat_0, lat_90, lat_95, lat_99, lat_100
    ll_pc,          \* the position inside LogLatency
    reported,       \* the five values LogLatency has written to stdout
    node_prev,      \* Deque: front_'s, back_'s and every node's prev
    front_mtx_,     \* DequeMutex: the thread that holds front_mtx_, or 0
    back_mtx_,      \* DequeMutex: the thread that holds back_mtx_, or 0
    mtx_,           \* QueueMutex: the std::shared_mutex of the queue
    sum_exec_num,   \* RunMwCASBench: the operations handed out so far
    handed,         \* RunMwCASBench: the exec_num of every thread spawned
    target_field_num_,  \* MwCASBench: the number of target fields
    targets         \* Worker constructor: per worker, the targets drawn

vars == <<kind, mem, elem, life, nalloc, epoch_counter, guard, pc, x, new_node,
          back, next, front, new_front, desc, own, hstack, word, ops, stale, uaf,
          npush, done, before, ret, phased, empty_ret, target_num_, operations_,
          idx, old_val, new_desc, wild, old_node, prev_node, tail_node,
          dummy_node, head_node, thread_num_, exec_num_, prefer_writer,
          mutex_1st, mutex_2nd, main_pc, w_pc, w_exec, promise, results,
          latencies, indexes, count, lat, ll_pc, reported, node_prev,
          front_mtx_, back_mtx_, mtx_, sum_exec_num, handed,
          target_field_num_, targets>>

heapVars == <<mem, elem, life, nalloc>>
localVars == <<x, new_node, back, next, front, new_front>>
histVars == <<npush, done, before, ret, phased, empty_ret>>
mwVars == <<desc, own, hstack, word>>
workerVars == <<target_num_, operations_, idx, old_val, new_desc, wild>>
containerVars == <<old_node, prev_node, tail_node, dummy_node, head_node>>
benchVars == <<prefer_writer, mutex_1st, mutex_2nd, main_pc, w_pc, w_exec,
               promise, results>>
latencyVars == <<latencies, indexes, count, lat, ll_pc, reported>>
dequeVars == <<node_prev, front_mtx_, back_mtx_>>
splitVars == <<sum_exec_num, handed>>
genVars == <<target_field_num_, targets>>
driverVars == <<thread_num_, exec_num_, benchVars, latencyVars, dequeVars,
                mtx_, splitVars, genVars>>

\* the worker threads a run of the benchmark can spawn
WorkerIds == 1..MaxThreadNum

\* a std::shared_mutex nobody holds
Unlocked == [unique |-> FALSE, waiting |-> FALSE, shared |-> {}]

\* a local variable of LogLatency that has not been assigned
Unassigned == -1

\* the driver before RunMwCASBench is called
\* no deque is in use and nobody holds the mutex of a QueueMutex
DequeIdle ==
    /\ node_prev = [a \in Addrs |-> kNullNode]
    /\ front_mtx_ = 0
    /\ back_mtx_ = 0
    /\ mtx_ = Unlocked
    /\ sum_exec_num = 0
    /\ handed = <<>>
    /\ target_field_num_ = NumFields
    /\ targets = [t \in Threads |-> <<>>]

DriverIdle ==
    /\ DequeIdle
    /\ thread_num_ = 0
    /\ exec_num_ = 0
    /\ prefer_writer = FALSE
    /\ mutex_1st = Unlocked
    /\ mutex_2nd = Unlocked
    /\ main_pc = "idle"
    /\ w_pc = [w \in WorkerIds |-> "unborn"]
    /\ w_exec = [w \in WorkerIds |-> 0]
    /\ promise = {}
    /\ results = 0
    /\ latencies = [w \in WorkerIds |-> <<>>]
    /\ indexes = [w \in WorkerIds |-> 0]
    /\ count = 0
    /\ lat = [lat_0 |-> Unassigned, lat_90 |-> Unassigned, lat_95 |-> Unassigned,
              lat_99 |-> Unassigned, lat_100 |-> Unassigned]
    /\ ll_pc = "idle"
    /\ reported = <<>>
queueVars == <<elem, life, nalloc, epoch_counter, guard, localVars, stale, uaf, histVars,
               containerVars>>

front_ == mem[FrontAddr]
back_ == mem[BackAddr]

\* the sum of f over the set S
RECURSIVE SumOver(_, _)
SumOver(S, f) ==
    IF S = {} THEN 0
    ELSE LET t == CHOOSE u \in S : TRUE IN f[t] + SumOver(S \ {t}, f)

\* the calls in flight: push keeps its argument in x
PushInFlight == \E t \in Threads : x[t] # 0
PopPcs == {"pop_load_front", "pop_load_next", "pop_cas", "pop_elem"}
PopInFlight == \E t \in Threads : pc[t] \in PopPcs
PopInvoked == PopInFlight \/ \E t \in Threads : ret[t] # <<>>

(***************************************************************************)
(* Epoch-based reclamation (memory/epoch_based_gc.hpp).                    *)
(***************************************************************************)

\* enter(): publish local_epoch = epoch_counter and set active
CreateEpochGuard(t) == guard' = [guard EXCEPT ![t] = epoch_counter]

\* leave(): the guard's destructor
LeaveEpochGuard(t) == guard' = [guard EXCEPT ![t] = NoGuard]

\* the epoch every active thread has reached
MinProtected ==
    LET act == {guard[t] : t \in {u \in Threads : guard[u] # NoGuard}}
    IN  IF act = {} THEN epoch_counter
        ELSE CHOOSE e \in act : \A f \in act : e <= f

\* the buckets advance() may drop: keyed <= e - 2
Reclaimable(n) == life[n] >= 0 /\ life[n] <= MinProtected - 2

\* the nodes thread t holds in its local variables
Held(t) ==
    ({new_node[t], back[t], next[t], front[t], new_front[t], old_node[t],
      prev_node[t], tail_node[t], dummy_node[t], head_node[t]}
        \cup UNION {{desc[hstack[t][k].d].entries[j].addr :
                        j \in DOMAIN desc[hstack[t][k].d].entries} :
                    k \in DOMAIN hstack[t]})
    \cap NodeIds

\* advance(): the global epoch moves on once every active thread has
\* published the current one
AdvanceEpoch ==
    /\ epoch_counter < MaxEpoch
    /\ MinProtected >= epoch_counter
    /\ epoch_counter' = epoch_counter + 1
    /\ UNCHANGED <<kind, driverVars, workerVars, containerVars, mwVars,
                   heapVars, guard, pc, localVars, ops, stale, uaf, histVars>>

\* a retired node is dropped: its memory may be handed out again
Reclaim(n) ==
    /\ Reclaimable(n)
    /\ life' = [life EXCEPT ![n] = Free]
    /\ mem' = [mem EXCEPT ![n] = kNullNode]
    /\ elem' = [elem EXCEPT ![n] = 0]
    /\ stale' = [t \in Threads |->
                    IF pc[t] # "idle" /\ n \in Held(t) THEN stale[t] \cup {n}
                    ELSE stale[t]]
    /\ UNCHANGED <<kind, driverVars, workerVars, containerVars, mwVars, nalloc,
                   epoch_counter, guard, pc, localVars, ops, uaf, histVars>>

\* the addresses GetPageIfPossible / new may return: a reclaimed page or
\* the next address never handed out
Allocatable ==
    {n \in NodeIds : n <= nalloc /\ life[n] = Free}
        \cup (IF nalloc < MaxNode THEN {nalloc + 1} ELSE {})

\* thread t dereferences a node that was freed (or freed and reused) while
\* t held it
Dangling(t, p) == life[p] = Free \/ p \in stale[t]

\* what a load of p->next by t may return: the word, or anything when the
\* node is freed memory
LoadNext(t, p) == IF life[p] = Free THEN 0..MaxNode ELSE {mem[p]}

\* what a load of p->elem by t may return
LoadElem(t, p) == IF life[p] = Free THEN 0..MaxNode ELSE {elem[p]}

(***************************************************************************)
(* QueueCAS (src/queue/queue_cas.hpp): the Michael-Scott queue.            *)
(***************************************************************************)

\* push, lines 69-72: the guard and the new node {x, nullptr}
QC_PushBegin(t) ==
    /\ kind = "QueueCAS"
    /\ pc[t] = "idle"
    /\ ops[t] < MaxOps
    /\ \E n \in Allocatable :
        /\ life' = [life EXCEPT ![n] = Live]
        /\ nalloc' = IF n > nalloc THEN n ELSE nalloc
        /\ mem' = [mem EXCEPT ![n] = kNullNode]
        /\ elem' = [elem EXCEPT ![n] = npush + 1]
        /\ new_node' = [new_node EXCEPT ![t] = n]
    /\ CreateEpochGuard(t)
    /\ x' = [x EXCEPT ![t] = npush + 1]
    /\ npush' = npush + 1
    /\ before' = before \cup {<<a, npush + 1>> : a \in done}
    /\ phased' = (phased /\ ~PopInvoked)
    /\ ops' = [ops EXCEPT ![t] = @ + 1]
    /\ pc' = [pc EXCEPT ![t] = "push_load_back"]
    /\ UNCHANGED <<kind, driverVars, workerVars, containerVars, mwVars,
                   epoch_counter, back, next, front, new_front, stale, uaf,
                   done, ret, empty_ret>>

\* push, line 74
QC_PushLoadBack(t) ==
    /\ kind = "QueueCAS"
    /\ pc[t] = "push_load_back"
    /\ back' = [back EXCEPT ![t] = back_]
    /\ pc' = [pc EXCEPT ![t] = "push_load_next"]
    /\ UNCHANGED <<kind, driverVars, workerVars, containerVars, mwVars,
                   heapVars, epoch_counter, guard, x, new_node, next, front,
                   new_front, ops, stale, uaf, histVars>>

\* push, lines 75-76
QC_PushLoadNext(t) ==
    /\ kind = "QueueCAS"
    /\ pc[t] = "push_load_next"
    /\ \E v \in LoadNext(t, back[t]) :
        /\ next' = [next EXCEPT ![t] = v]
        /\ pc' = [pc EXCEPT ![t] = IF v # kNullNode THEN "push_help" ELSE "push_link"]
    /\ uaf' = (uaf \/ Dangling(t, back[t]))
    /\ UNCHANGED <<kind, driverVars, workerVars, containerVars, mwVars,
                   heapVars, epoch_counter, guard, x, new_node, back, front,
                   new_front, ops, stale, histVars>>

\* a push that waits for the linking thread to swing back_ itself
QC_PushWait(t) ==
    /\ kind = "QueueCAS"
    /\ pc[t] = "push_help"
    /\ pc' = [pc EXCEPT ![t] = "push_load_back"]
    /\ UNCHANGED <<kind, driverVars, workerVars, containerVars, mwVars,
                   heapVars, epoch_counter, guard, localVars, ops, stale, uaf,
                   histVars>>

\* push, lines 78-79: help the thread that linked a node, and retry
QC_PushHelp(t) ==
    /\ kind = "QueueCAS"
    /\ pc[t] = "push_help"
    /\ mem' = IF back_ = back[t] THEN [mem EXCEPT ![BackAddr] = next[t]] ELSE mem
    /\ pc' = [pc EXCEPT ![t] = "push_load_back"]
    /\ UNCHANGED <<kind, driverVars, workerVars, containerVars, mwVars, elem,
                   life, nalloc, epoch_counter, guard, localVars, ops, stale,
                   uaf, histVars>>

\* a link that stores the new node without comparing back->next
QC_PushLinkStore(t) ==
    /\ kind = "QueueCAS"
    /\ pc[t] = "push_link"
    /\ mem' = [mem EXCEPT ![back[t]] = new_node[t]]
    /\ pc' = [pc EXCEPT ![t] = "push_swing"]
    /\ uaf' = (uaf \/ Dangling(t, back[t]))
    /\ UNCHANGED <<kind, driverVars, workerVars, containerVars, mwVars, elem,
                   life, nalloc, epoch_counter, guard, localVars, ops, stale,
                   histVars>>

\* push, lines 82-85: link the new node behind the last one
QC_PushLink(t) ==
    /\ kind = "QueueCAS"
    /\ pc[t] = "push_link"
    /\ \/ /\ life[back[t]] # Free
          /\ mem[back[t]] = next[t]
          /\ mem' = [mem EXCEPT ![back[t]] = new_node[t]]
          /\ pc' = [pc EXCEPT ![t] = "push_swing"]
       \/ /\ life[back[t]] # Free
          /\ mem[back[t]] # next[t]
          /\ mem' = mem
          /\ pc' = [pc EXCEPT ![t] = "push_load_back"]
       \/ /\ life[back[t]] = Free
          /\ mem' = mem
          /\ \E to \in {"push_swing", "push_load_back"} : pc' = [pc EXCEPT ![t] = to]
    /\ uaf' = (uaf \/ Dangling(t, back[t]))
    /\ UNCHANGED <<kind, driverVars, workerVars, containerVars, mwVars, elem,
                   life, nalloc, epoch_counter, guard, localVars, ops, stale,
                   histVars>>

\* a push that stores its node into back_ without comparing
QC_PushSwingStore(t) ==
    /\ kind = "QueueCAS"
    /\ pc[t] = "push_swing"
    /\ mem' = [mem EXCEPT ![BackAddr] = new_node[t]]
    /\ LeaveEpochGuard(t)
    /\ done' = done \cup {x[t]}
    /\ pc' = [pc EXCEPT ![t] = "idle"]
    /\ x' = [x EXCEPT ![t] = 0]
    /\ new_node' = [new_node EXCEPT ![t] = kNullNode]
    /\ back' = [back EXCEPT ![t] = kNullNode]
    /\ next' = [next EXCEPT ![t] = kNullNode]
    /\ stale' = [stale EXCEPT ![t] = {}]
    /\ UNCHANGED <<kind, driverVars, workerVars, containerVars, mwVars, elem,
                   life, nalloc, epoch_counter, front, new_front, ops, uaf,
                   npush, before, ret, phased, empty_ret>>

\* push, lines 87-88: swing back_ (a failure is benign) and return
QC_PushSwing(t) ==
    /\ kind = "QueueCAS"
    /\ pc[t] = "push_swing"
    /\ mem' = IF back_ = back[t] THEN [mem EXCEPT ![BackAddr] = new_node[t]] ELSE mem
    /\ LeaveEpochGuard(t)
    /\ done' = done \cup {x[t]}
    /\ pc' = [pc EXCEPT ![t] = "idle"]
    /\ x' = [x EXCEPT ![t] = 0]
    /\ new_node' = [new_node EXCEPT ![t] = kNullNode]
    /\ back' = [back EXCEPT ![t] = kNullNode]
    /\ next' = [next EXCEPT ![t] = kNullNode]
    /\ stale' = [stale EXCEPT ![t] = {}]
    /\ UNCHANGED <<kind, driverVars, workerVars, containerVars, mwVars, elem,
                   life, nalloc, epoch_counter, front, new_front, ops, uaf,
                   npush, before, ret, phased, empty_ret>>

\* a pop that creates no epoch guard
QC_PopBeginUnguarded(t) ==
    /\ kind = "QueueCAS"
    /\ pc[t] = "idle"
    /\ ops[t] < MaxOps
    /\ ops' = [ops EXCEPT ![t] = @ + 1]
    /\ phased' = (phased /\ ~PushInFlight)
    /\ pc' = [pc EXCEPT ![t] = "pop_load_front"]
    /\ UNCHANGED <<kind, driverVars, workerVars, containerVars, mwVars,
                   heapVars, epoch_counter, guard, localVars, stale, uaf, npush,
                   done, before, ret, empty_ret>>

\* pop, line 96: the guard
QC_PopBegin(t) ==
    /\ kind = "QueueCAS"
    /\ pc[t] = "idle"
    /\ ops[t] < MaxOps
    /\ CreateEpochGuard(t)
    /\ ops' = [ops EXCEPT ![t] = @ + 1]
    /\ phased' = (phased /\ ~PushInFlight)
    /\ pc' = [pc EXCEPT ![t] = "pop_load_front"]
    /\ UNCHANGED <<kind, driverVars, workerVars, containerVars, mwVars,
                   heapVars, epoch_counter, localVars, stale, uaf, npush, done,
                   before, ret, empty_ret>>

\* pop, line 98
QC_PopLoadFront(t) ==
    /\ kind = "QueueCAS"
    /\ pc[t] = "pop_load_front"
    /\ front' = [front EXCEPT ![t] = front_]
    /\ pc' = [pc EXCEPT ![t] = "pop_load_next"]
    /\ UNCHANGED <<kind, driverVars, workerVars, containerVars, mwVars,
                   heapVars, epoch_counter, guard, x, new_node, back, next,
                   new_front, ops, stale, uaf, histVars>>

\* a pop that takes back_ for the node behind front
QC_PopLoadBack(t) ==
    /\ kind = "QueueCAS"
    /\ pc[t] = "pop_load_next"
    /\ uaf' = (uaf \/ Dangling(t, front[t]))
    /\ IF back_ = front[t]
       THEN /\ LeaveEpochGuard(t)
            /\ ret' = [ret EXCEPT ![t] = Append(@, None)]
            /\ pc' = [pc EXCEPT ![t] = "idle"]
            /\ front' = [front EXCEPT ![t] = kNullNode]
            /\ stale' = [stale EXCEPT ![t] = {}]
            /\ UNCHANGED new_front
       ELSE /\ new_front' = [new_front EXCEPT ![t] = back_]
            /\ pc' = [pc EXCEPT ![t] = "pop_cas"]
            /\ UNCHANGED <<guard, ret, front, stale>>
    /\ UNCHANGED <<kind, driverVars, workerVars, containerVars, mwVars,
                   heapVars, epoch_counter, x, new_node, back, next, ops, npush,
                   done, before, phased, empty_ret>>

\* a pop that loads front_ again when it finds the queue empty
QC_PopRetry(t) ==
    /\ kind = "QueueCAS"
    /\ pc[t] = "pop_load_next"
    /\ uaf' = (uaf \/ Dangling(t, front[t]))
    /\ \E v \in LoadNext(t, front[t]) :
        IF v = kNullNode
        THEN /\ pc' = [pc EXCEPT ![t] = "pop_load_front"]
             /\ UNCHANGED new_front
        ELSE /\ new_front' = [new_front EXCEPT ![t] = v]
             /\ pc' = [pc EXCEPT ![t] = "pop_cas"]
    /\ UNCHANGED <<kind, driverVars, workerVars, containerVars, mwVars,
                   heapVars, epoch_counter, guard, x, new_node, back, next,
                   front, ops, stale, histVars>>

\* pop, lines 100-101: an empty queue returns std::nullopt
QC_PopLoadNext(t) ==
    /\ kind = "QueueCAS"
    /\ pc[t] = "pop_load_next"
    /\ uaf' = (uaf \/ Dangling(t, front[t]))
    /\ \E v \in LoadNext(t, front[t]) :
        IF v = kNullNode
        THEN /\ LeaveEpochGuard(t)
             /\ ret' = [ret EXCEPT ![t] = Append(@, None)]
             /\ pc' = [pc EXCEPT ![t] = "idle"]
             /\ front' = [front EXCEPT ![t] = kNullNode]
             /\ stale' = [stale EXCEPT ![t] = {}]
             /\ UNCHANGED new_front
        ELSE /\ new_front' = [new_front EXCEPT ![t] = v]
             /\ pc' = [pc EXCEPT ![t] = "pop_cas"]
             /\ UNCHANGED <<guard, ret, front, stale>>
    /\ UNCHANGED <<kind, driverVars, workerVars, containerVars, mwVars,
                   heapVars, epoch_counter, x, new_node, back, next, ops, npush,
                   done, before, phased, empty_ret>>

\* a pop that stores front_ without comparing it
QC_PopStore(t) ==
    /\ kind = "QueueCAS"
    /\ pc[t] = "pop_cas"
    /\ mem' = [mem EXCEPT ![FrontAddr] = new_front[t]]
    /\ life' = [life EXCEPT ![front[t]] = epoch_counter]
    /\ pc' = [pc EXCEPT ![t] = "pop_elem"]
    /\ UNCHANGED <<kind, driverVars, workerVars, containerVars, mwVars, elem,
                   nalloc, epoch_counter, guard, localVars, ops, stale, uaf,
                   histVars>>

\* pop, lines 103-104: advance front_, and retire the old front node
QC_PopCAS(t) ==
    /\ kind = "QueueCAS"
    /\ pc[t] = "pop_cas"
    /\ IF front_ = front[t]
       THEN /\ mem' = [mem EXCEPT ![FrontAddr] = new_front[t]]
            /\ life' = [life EXCEPT ![front[t]] = epoch_counter]
            /\ pc' = [pc EXCEPT ![t] = "pop_elem"]
            /\ UNCHANGED front
       ELSE /\ front' = [front EXCEPT ![t] = front_]
            /\ pc' = [pc EXCEPT ![t] = "pop_load_next"]
            /\ UNCHANGED <<mem, life>>
    /\ UNCHANGED <<kind, driverVars, workerVars, containerVars, mwVars, elem,
                   nalloc, epoch_counter, guard, x, new_node, back, next,
                   new_front, ops, stale, uaf, histVars>>

\* a pop that returns the element of the node it has unlinked
QC_PopElemFront(t) ==
    /\ kind = "QueueCAS"
    /\ pc[t] = "pop_elem"
    /\ uaf' = (uaf \/ Dangling(t, front[t]))
    /\ \E v \in LoadElem(t, front[t]) :
        ret' = [ret EXCEPT ![t] = Append(@, v)]
    /\ LeaveEpochGuard(t)
    /\ pc' = [pc EXCEPT ![t] = "idle"]
    /\ front' = [front EXCEPT ![t] = kNullNode]
    /\ new_front' = [new_front EXCEPT ![t] = kNullNode]
    /\ stale' = [stale EXCEPT ![t] = {}]
    /\ UNCHANGED <<kind, driverVars, workerVars, containerVars, mwVars,
                   heapVars, epoch_counter, x, new_node, back, next, ops, npush,
                   done, before, phased, empty_ret>>

\* pop, line 105: read the element of the new front node and return it
QC_PopElem(t) ==
    /\ kind = "QueueCAS"
    /\ pc[t] = "pop_elem"
    /\ uaf' = (uaf \/ Dangling(t, new_front[t]))
    /\ \E v \in LoadElem(t, new_front[t]) :
        ret' = [ret EXCEPT ![t] = Append(@, v)]
    /\ LeaveEpochGuard(t)
    /\ pc' = [pc EXCEPT ![t] = "idle"]
    /\ front' = [front EXCEPT ![t] = kNullNode]
    /\ new_front' = [new_front EXCEPT ![t] = kNullNode]
    /\ stale' = [stale EXCEPT ![t] = {}]
    /\ UNCHANGED <<kind, driverVars, workerVars, containerVars, mwVars,
                   heapVars, epoch_counter, x, new_node, back, next, ops, npush,
                   done, before, phased, empty_ret>>

\* empty, line 114: the guard
QC_EmptyBegin(t) ==
    /\ kind = "QueueCAS"
    /\ pc[t] = "idle"
    /\ ops[t] < MaxOps
    /\ CreateEpochGuard(t)
    /\ ops' = [ops EXCEPT ![t] = @ + 1]
    /\ pc' = [pc EXCEPT ![t] = "empty_load_front"]
    /\ UNCHANGED <<kind, driverVars, workerVars, containerVars, mwVars,
                   heapVars, epoch_counter, localVars, stale, uaf, histVars>>

\* empty, line 116
QC_EmptyLoadFront(t) ==
    /\ kind = "QueueCAS"
    /\ pc[t] = "empty_load_front"
    /\ front' = [front EXCEPT ![t] = front_]
    /\ pc' = [pc EXCEPT ![t] = "empty_load_next"]
    /\ UNCHANGED <<kind, driverVars, workerVars, containerVars, mwVars,
                   heapVars, epoch_counter, guard, x, new_node, back, next,
                   new_front, ops, stale, uaf, histVars>>

\* an empty() that returns whether front->next is a node
QC_EmptyNotNull(t) ==
    /\ kind = "QueueCAS"
    /\ pc[t] = "empty_load_next"
    /\ uaf' = (uaf \/ Dangling(t, front[t]))
    /\ \E v \in LoadNext(t, front[t]) :
        empty_ret' = [empty_ret EXCEPT ![t] = IF v # kNullNode THEN "true" ELSE "false"]
    /\ LeaveEpochGuard(t)
    /\ pc' = [pc EXCEPT ![t] = "idle"]
    /\ front' = [front EXCEPT ![t] = kNullNode]
    /\ stale' = [stale EXCEPT ![t] = {}]
    /\ UNCHANGED <<kind, driverVars, workerVars, containerVars, mwVars,
                   heapVars, epoch_counter, x, new_node, back, next, new_front,
                   ops, npush, done, before, ret, phased>>

\* empty, line 117: front->next == nullptr
QC_EmptyLoadNext(t) ==
    /\ kind = "QueueCAS"
    /\ pc[t] = "empty_load_next"
    /\ uaf' = (uaf \/ Dangling(t, front[t]))
    /\ \E v \in LoadNext(t, front[t]) :
        empty_ret' = [empty_ret EXCEPT ![t] = IF v = kNullNode THEN "true" ELSE "false"]
    /\ LeaveEpochGuard(t)
    /\ pc' = [pc EXCEPT ![t] = "idle"]
    /\ front' = [front EXCEPT ![t] = kNullNode]
    /\ stale' = [stale EXCEPT ![t] = {}]
    /\ UNCHANGED <<kind, driverVars, workerVars, containerVars, mwVars,
                   heapVars, epoch_counter, x, new_node, back, next, new_front,
                   ops, npush, done, before, ret, phased>>

QC_Step(t) ==
    \/ QC_PushBegin(t)
    \/ QC_PushLoadBack(t)
    \/ QC_PushLoadNext(t)
    \/ QC_PushHelp(t)
    \/ QC_PushLink(t)
    \/ QC_PushSwing(t)
    \/ QC_PopBegin(t)
    \/ QC_PopLoadFront(t)
    \/ QC_PopLoadNext(t)
    \/ QC_PopCAS(t)
    \/ QC_PopElem(t)
    \/ QC_EmptyBegin(t)
    \/ QC_EmptyLoadFront(t)
    \/ QC_EmptyLoadNext(t)

(***************************************************************************)
(* The MwCAS descriptor engine (mwcas/mwcas_descriptor.hpp).               *)
(***************************************************************************)

\* an unused slot of the descriptor pool
NoDesc == [status |-> "None", entries |-> <<>>]

EncodeDescriptor(d) == 0 - d
IsDescriptor(w) == w < 0
DecodeDescriptor(w) == 0 - w

Frame(d, i, st) == [d |-> d, i |-> i, st |-> st]
Top(t) == hstack[t][Len(hstack[t])]
TopEntry(t) == desc[Top(t).d].entries[Top(t).i]
SetTop(t, f) == [hstack EXCEPT ![t] = [@ EXCEPT ![Len(@)] = f]]
PopTop(t) == [hstack EXCEPT ![t] = SubSeq(@, 1, Len(@) - 1)]
PushTop(t, f) == [hstack EXCEPT ![t] = Append(@, f)]

\* a helper that decides as soon as one entry holds the descriptor
InstalledOne(f) == Frame(f.d, f.i, "decide")

\* the frame once entry f.i holds the descriptor: the next entry, or the
\* decision when it was the last one
Installed(f) ==
    IF f.i < Len(desc[f.d].entries) THEN Frame(f.d, f.i + 1, "check")
    ELSE Frame(f.d, f.i, "decide")

\* the descriptors some word or some thread still refers to
Referenced(m, o, h, w) ==
    {d \in DescIds :
        \/ \E a \in DOMAIN m : m[a] = EncodeDescriptor(d)
        \/ \E t \in Threads :
            \/ o[t] = d
            \/ w[t] = EncodeDescriptor(d)
            \/ \E k \in DOMAIN h[t] : h[t][k].d = d}

\* step 5: a descriptor nobody refers to any more returns to the pool
Retire(dn, m, o, h, w) ==
    [d \in DescIds |-> IF d \in Referenced(m, o, h, w) THEN dn[d] ELSE NoDesc]

\* step 1: the descriptor AddMwCASTarget fills, taken from the pool
FreeDescs == {d \in DescIds : desc[d] = NoDesc}
NewDesc == CHOOSE d \in FreeDescs : \A e \in FreeDescs : d <= e
Target(a, old, new) == [addr |-> a, exp |-> old, des |-> new]

\* the entry of descriptor d for address a
EntryFor(d, a) ==
    LET es == desc[d].entries
    IN  es[CHOOSE k \in DOMAIN es : es[k].addr = a]

\* a word of a node that was freed (or reused) under thread t
DanglingAddr(t, a) ==
    /\ a \in NodeIds
    /\ kind \in {"QueueMwCAS", "ContainerMwCAS"}
    /\ Dangling(t, a)

\* step 2: has another helper decided the descriptor meanwhile?
MwCheck(t) ==
    /\ hstack[t] # <<>>
    /\ Top(t).st = "check"
    /\ hstack' = SetTop(t, IF desc[Top(t).d].status = "Undecided"
                           THEN Frame(Top(t).d, Top(t).i, "read")
                           ELSE Frame(Top(t).d, 1, "fin"))
    /\ UNCHANGED <<kind, driverVars, workerVars, containerVars, heapVars,
                   epoch_counter, guard, pc, localVars, desc, own, word, ops,
                   stale, uaf, histVars>>

\* a caller that waits for the owner of a foreign descriptor instead of
\* helping it
MwReadWait(t) ==
    /\ hstack[t] # <<>>
    /\ Top(t).st = "read"
    /\ LET f == Top(t)
           e == TopEntry(t)
           v == mem[e.addr]
       IN  /\ hstack' =
                 IF v = EncodeDescriptor(f.d) THEN SetTop(t, Installed(f))
                 ELSE IF IsDescriptor(v) THEN hstack
                 ELSE IF v # e.exp THEN SetTop(t, Frame(f.d, f.i, "fail"))
                 ELSE SetTop(t, Frame(f.d, f.i, "cas"))
           /\ uaf' = (uaf \/ DanglingAddr(t, e.addr))
    /\ UNCHANGED <<kind, driverVars, workerVars, containerVars, heapVars,
                   epoch_counter, guard, pc, localVars, desc, own, word, ops,
                   stale, histVars>>

\* step 2: read the entry's word
MwRead(t) ==
    /\ hstack[t] # <<>>
    /\ Top(t).st = "read"
    /\ LET f == Top(t)
           e == TopEntry(t)
           v == mem[e.addr]
       IN  /\ hstack' =
                 IF v = EncodeDescriptor(f.d) THEN SetTop(t, Installed(f))
                 ELSE IF IsDescriptor(v)
                      THEN PushTop(t, Frame(DecodeDescriptor(v), 1, "check"))
                 ELSE IF v # e.exp THEN SetTop(t, Frame(f.d, f.i, "fail"))
                 ELSE SetTop(t, Frame(f.d, f.i, "cas"))
           /\ uaf' = (uaf \/ DanglingAddr(t, e.addr))
    /\ UNCHANGED <<kind, driverVars, workerVars, containerVars, heapVars,
                   epoch_counter, guard, pc, localVars, desc, own, word, ops,
                   stale, histVars>>

\* step 2: install the descriptor by CAS
MwInstall(t) ==
    /\ hstack[t] # <<>>
    /\ Top(t).st = "cas"
    /\ LET f == Top(t)
           e == TopEntry(t)
       IN  /\ IF mem[e.addr] = e.exp
              THEN /\ mem' = [mem EXCEPT ![e.addr] = EncodeDescriptor(f.d)]
                   /\ hstack' = SetTop(t, Installed(f))
              ELSE /\ mem' = mem
                   /\ hstack' = SetTop(t, Frame(f.d, f.i, "read"))
           /\ uaf' = (uaf \/ DanglingAddr(t, e.addr))
    /\ UNCHANGED <<kind, driverVars, workerVars, containerVars, elem, life,
                   nalloc, epoch_counter, guard, pc, localVars, desc, own, word,
                   ops, stale, histVars>>

\* a helper that stores Failed without comparing the status
MwFailStore(t) ==
    /\ hstack[t] # <<>>
    /\ Top(t).st = "fail"
    /\ desc' = [desc EXCEPT ![Top(t).d].status = "Failed"]
    /\ hstack' = SetTop(t, Frame(Top(t).d, 1, "fin"))
    /\ UNCHANGED <<kind, driverVars, workerVars, containerVars, heapVars,
                   epoch_counter, guard, pc, localVars, own, word, ops, stale,
                   uaf, histVars>>

\* step 2: a word differs from its expected value: Undecided -> Failed
MwFail(t) ==
    /\ hstack[t] # <<>>
    /\ Top(t).st = "fail"
    /\ desc' = IF desc[Top(t).d].status = "Undecided"
               THEN [desc EXCEPT ![Top(t).d].status = "Failed"]
               ELSE desc
    /\ hstack' = SetTop(t, Frame(Top(t).d, 1, "fin"))
    /\ UNCHANGED <<kind, driverVars, workerVars, containerVars, heapVars,
                   epoch_counter, guard, pc, localVars, own, word, ops, stale,
                   uaf, histVars>>

\* step 3: every entry is installed: Undecided -> Succeeded
MwDecide(t) ==
    /\ hstack[t] # <<>>
    /\ Top(t).st = "decide"
    /\ desc' = IF desc[Top(t).d].status = "Undecided"
               THEN [desc EXCEPT ![Top(t).d].status = "Succeeded"]
               ELSE desc
    /\ hstack' = SetTop(t, Frame(Top(t).d, 1, "fin"))
    /\ UNCHANGED <<kind, driverVars, workerVars, containerVars, heapVars,
                   epoch_counter, guard, pc, localVars, own, word, ops, stale,
                   uaf, histVars>>

\* a finalize step that writes the desired value whatever was decided
FinalDesired(d, e) == e.des

\* the value step 4 leaves in an entry's word
Final(d, e) == IF desc[d].status = "Succeeded" THEN e.des ELSE e.exp

\* step 4: replace the descriptor by the desired or the expected value
MwFinalize(t) ==
    /\ hstack[t] # <<>>
    /\ Top(t).st = "fin"
    /\ LET f == Top(t)
           e == TopEntry(t)
           m == IF mem[e.addr] = EncodeDescriptor(f.d)
                THEN [mem EXCEPT ![e.addr] = Final(f.d, e)]
                ELSE mem
           h == IF f.i < Len(desc[f.d].entries)
                THEN SetTop(t, Frame(f.d, f.i + 1, "fin"))
                ELSE PopTop(t)
       IN  /\ mem' = m
           /\ hstack' = h
           /\ desc' = Retire(desc, m, own, h, word)
           /\ uaf' = (uaf \/ DanglingAddr(t, e.addr))
    /\ UNCHANGED <<kind, driverVars, workerVars, containerVars, elem, life,
                   nalloc, epoch_counter, guard, pc, localVars, own, word, ops,
                   stale, histVars>>

MwStep(t) ==
    \/ MwCheck(t)
    \/ MwRead(t)
    \/ MwInstall(t)
    \/ MwFail(t)
    \/ MwDecide(t)
    \/ MwFinalize(t)

(***************************************************************************)
(* The protected read (MwCASDescriptor::Read).                             *)
(***************************************************************************)

\* what one step of a read of address a by thread t finds: a value to
\* return, a descriptor whose status is read next, or a descriptor to help
ReadOutcome(t, a) ==
    IF word[t] = 0
    THEN IF IsDescriptor(mem[a]) THEN [k |-> "desc", v |-> mem[a]]
         ELSE [k |-> "val", v |-> mem[a]]
    ELSE LET d == DecodeDescriptor(word[t])
         IN  IF desc[d].status = "Succeeded" THEN [k |-> "val", v |-> EntryFor(d, a).des]
             ELSE IF desc[d].status = "Failed" THEN [k |-> "val", v |-> EntryFor(d, a).exp]
             ELSE [k |-> "help", v |-> d]

\* the read goes on: it keeps the descriptor it loaded, or helps it and
\* loads the word again
ReadPending(t, o) ==
    /\ o.k # "val"
    /\ word' = [word EXCEPT ![t] = IF o.k = "desc" THEN o.v ELSE 0]
    /\ hstack' = IF o.k = "help" THEN PushTop(t, Frame(o.v, 1, "check")) ELSE hstack
    /\ UNCHANGED <<kind, driverVars, workerVars, containerVars, heapVars,
                   epoch_counter, guard, pc, localVars, desc, own, ops, stale,
                   histVars>>

(***************************************************************************)
(* QueueMwCAS (src/queue/queue_mwcas.hpp): push swaps back_ and the last   *)
(* node's next by one MwCAS.                                               *)
(***************************************************************************)

\* push, lines 73-77: the guard and the new node {x, nullptr}
QM_PushBegin(t) ==
    /\ kind = "QueueMwCAS"
    /\ pc[t] = "idle"
    /\ ops[t] < MaxOps
    /\ \E n \in Allocatable :
        /\ life' = [life EXCEPT ![n] = Live]
        /\ nalloc' = IF n > nalloc THEN n ELSE nalloc
        /\ mem' = [mem EXCEPT ![n] = kNullNode]
        /\ elem' = [elem EXCEPT ![n] = npush + 1]
        /\ new_node' = [new_node EXCEPT ![t] = n]
    /\ CreateEpochGuard(t)
    /\ x' = [x EXCEPT ![t] = npush + 1]
    /\ npush' = npush + 1
    /\ before' = before \cup {<<a, npush + 1>> : a \in done}
    /\ phased' = (phased /\ ~PopInvoked)
    /\ ops' = [ops EXCEPT ![t] = @ + 1]
    /\ pc' = [pc EXCEPT ![t] = "push_read_back"]
    /\ UNCHANGED <<kind, driverVars, workerVars, containerVars, mwVars,
                   epoch_counter, back, next, front, new_front, stale, uaf,
                   done, ret, empty_ret>>

\* a push whose descriptor holds back_ only
QM_PushBackOnly(t) ==
    /\ kind = "QueueMwCAS"
    /\ pc[t] = "push_read_back"
    /\ hstack[t] = <<>>
    /\ uaf' = uaf
    /\ LET o == ReadOutcome(t, BackAddr)
       IN  \/ /\ o.k = "val"
              /\ FreeDescs # {}
              /\ back' = [back EXCEPT ![t] = o.v]
              /\ word' = [word EXCEPT ![t] = 0]
              /\ own' = [own EXCEPT ![t] = NewDesc]
              /\ hstack' = [hstack EXCEPT ![t] = <<Frame(NewDesc, 1, "read")>>]
              /\ desc' = [Retire(desc, mem, own, hstack, word') EXCEPT ![NewDesc] =
                            [status |-> "Undecided",
                             entries |-> <<Target(BackAddr, o.v, new_node[t])>>]]
              /\ pc' = [pc EXCEPT ![t] = "push_mwcas"]
              /\ UNCHANGED <<kind, driverVars, workerVars, containerVars,
                             heapVars, epoch_counter, guard, x, new_node, next,
                             front, new_front, ops, stale, histVars>>
           \/ ReadPending(t, o)

\* push, lines 79-85: read back_, fill the descriptor and start the MwCAS
QM_PushReadBack(t) ==
    /\ kind = "QueueMwCAS"
    /\ pc[t] = "push_read_back"
    /\ hstack[t] = <<>>
    /\ uaf' = uaf
    /\ LET o == ReadOutcome(t, BackAddr)
       IN  \/ /\ o.k = "val"
              /\ FreeDescs # {}
              /\ back' = [back EXCEPT ![t] = o.v]
              /\ word' = [word EXCEPT ![t] = 0]
              /\ own' = [own EXCEPT ![t] = NewDesc]
              /\ hstack' = [hstack EXCEPT ![t] = <<Frame(NewDesc, 1, "read")>>]
              /\ desc' = [Retire(desc, mem, own, hstack, word') EXCEPT ![NewDesc] =
                            [status |-> "Undecided",
                             entries |-> <<Target(BackAddr, o.v, new_node[t]),
                                           Target(o.v, kNullNode, new_node[t])>>]]
              /\ pc' = [pc EXCEPT ![t] = "push_mwcas"]
              /\ UNCHANGED <<kind, driverVars, workerVars, containerVars,
                             heapVars, epoch_counter, guard, x, new_node, next,
                             front, new_front, ops, stale, histVars>>
           \/ ReadPending(t, o)

\* push, line 85: the MwCAS has returned; done when it succeeded, else retry
QM_PushReturn(t) ==
    /\ kind = "QueueMwCAS"
    /\ pc[t] = "push_mwcas"
    /\ hstack[t] = <<>>
    /\ own' = [own EXCEPT ![t] = 0]
    /\ desc' = Retire(desc, mem, own', hstack, word)
    /\ IF desc[own[t]].status = "Succeeded"
       THEN /\ LeaveEpochGuard(t)
            /\ done' = done \cup {x[t]}
            /\ pc' = [pc EXCEPT ![t] = "idle"]
            /\ x' = [x EXCEPT ![t] = 0]
            /\ new_node' = [new_node EXCEPT ![t] = kNullNode]
            /\ back' = [back EXCEPT ![t] = kNullNode]
            /\ stale' = [stale EXCEPT ![t] = {}]
       ELSE /\ pc' = [pc EXCEPT ![t] = "push_read_back"]
            /\ back' = [back EXCEPT ![t] = kNullNode]
            /\ UNCHANGED <<guard, done, x, new_node, stale>>
    /\ UNCHANGED <<kind, driverVars, workerVars, containerVars, heapVars,
                   epoch_counter, next, front, new_front, hstack, word, ops,
                   uaf, npush, before, ret, phased, empty_ret>>

\* pop, line 93: the guard
QM_PopBegin(t) ==
    /\ kind = "QueueMwCAS"
    /\ pc[t] = "idle"
    /\ ops[t] < MaxOps
    /\ CreateEpochGuard(t)
    /\ ops' = [ops EXCEPT ![t] = @ + 1]
    /\ phased' = (phased /\ ~PushInFlight)
    /\ pc' = [pc EXCEPT ![t] = "pop_load_front"]
    /\ UNCHANGED <<kind, driverVars, workerVars, containerVars, mwVars,
                   heapVars, epoch_counter, localVars, stale, uaf, npush, done,
                   before, ret, empty_ret>>

\* pop, line 95
QM_PopLoadFront(t) ==
    /\ kind = "QueueMwCAS"
    /\ pc[t] = "pop_load_front"
    /\ front' = [front EXCEPT ![t] = front_]
    /\ pc' = [pc EXCEPT ![t] = "pop_load_next"]
    /\ UNCHANGED <<kind, driverVars, workerVars, containerVars, mwVars,
                   heapVars, epoch_counter, guard, x, new_node, back, next,
                   new_front, ops, stale, uaf, histVars>>

\* a pop that loads front->next as a plain word
QM_PopLoadNext(t) ==
    /\ kind = "QueueMwCAS"
    /\ pc[t] = "pop_load_next"
    /\ hstack[t] = <<>>
    /\ uaf' = (uaf \/ DanglingAddr(t, front[t]))
    /\ IF mem[front[t]] = kNullNode
       THEN /\ LeaveEpochGuard(t)
            /\ ret' = [ret EXCEPT ![t] = Append(@, None)]
            /\ pc' = [pc EXCEPT ![t] = "idle"]
            /\ front' = [front EXCEPT ![t] = kNullNode]
            /\ stale' = [stale EXCEPT ![t] = {}]
            /\ UNCHANGED new_front
       ELSE /\ new_front' = [new_front EXCEPT ![t] = mem[front[t]]]
            /\ pc' = [pc EXCEPT ![t] = "pop_cas"]
            /\ UNCHANGED <<guard, ret, front, stale>>
    /\ UNCHANGED <<kind, driverVars, workerVars, containerVars, mwVars,
                   heapVars, epoch_counter, x, new_node, back, next, ops, npush,
                   done, before, phased, empty_ret>>

\* pop, lines 97-98: read front->next; an empty queue returns std::nullopt
QM_PopReadNext(t) ==
    /\ kind = "QueueMwCAS"
    /\ pc[t] = "pop_load_next"
    /\ hstack[t] = <<>>
    /\ uaf' = (uaf \/ DanglingAddr(t, front[t]))
    /\ LET o == ReadOutcome(t, front[t])
       IN  \/ /\ o.k = "val"
              /\ word' = [word EXCEPT ![t] = 0]
              /\ desc' = Retire(desc, mem, own, hstack, word')
              /\ IF o.v = kNullNode
                 THEN /\ LeaveEpochGuard(t)
                      /\ ret' = [ret EXCEPT ![t] = Append(@, None)]
                      /\ pc' = [pc EXCEPT ![t] = "idle"]
                      /\ front' = [front EXCEPT ![t] = kNullNode]
                      /\ stale' = [stale EXCEPT ![t] = {}]
                      /\ UNCHANGED new_front
                 ELSE /\ new_front' = [new_front EXCEPT ![t] = o.v]
                      /\ pc' = [pc EXCEPT ![t] = "pop_cas"]
                      /\ UNCHANGED <<guard, ret, front, stale>>
              /\ UNCHANGED <<kind, driverVars, workerVars, containerVars,
                             heapVars, epoch_counter, x, new_node, back, next,
                             own, hstack, ops, npush, done, before, phased,
                             empty_ret>>
           \/ ReadPending(t, o)

\* pop, lines 101-102: advance front_, and retire the old front node
QM_PopCAS(t) ==
    /\ kind = "QueueMwCAS"
    /\ pc[t] = "pop_cas"
    /\ IF front_ = front[t]
       THEN /\ mem' = [mem EXCEPT ![FrontAddr] = new_front[t]]
            /\ life' = [life EXCEPT ![front[t]] = epoch_counter]
            /\ pc' = [pc EXCEPT ![t] = "pop_elem"]
            /\ UNCHANGED front
       ELSE /\ front' = [front EXCEPT ![t] = front_]
            /\ pc' = [pc EXCEPT ![t] = "pop_load_next"]
            /\ UNCHANGED <<mem, life>>
    /\ UNCHANGED <<kind, driverVars, workerVars, containerVars, mwVars, elem,
                   nalloc, epoch_counter, guard, x, new_node, back, next,
                   new_front, ops, stale, uaf, histVars>>

\* pop, line 103: read the element of the new front node and return it
QM_PopElem(t) ==
    /\ kind = "QueueMwCAS"
    /\ pc[t] = "pop_elem"
    /\ uaf' = (uaf \/ Dangling(t, new_front[t]))
    /\ \E v \in LoadElem(t, new_front[t]) :
        ret' = [ret EXCEPT ![t] = Append(@, v)]
    /\ LeaveEpochGuard(t)
    /\ pc' = [pc EXCEPT ![t] = "idle"]
    /\ front' = [front EXCEPT ![t] = kNullNode]
    /\ new_front' = [new_front EXCEPT ![t] = kNullNode]
    /\ stale' = [stale EXCEPT ![t] = {}]
    /\ UNCHANGED <<kind, driverVars, workerVars, containerVars, mwVars,
                   heapVars, epoch_counter, x, new_node, back, next, ops, npush,
                   done, before, phased, empty_ret>>

\* empty, line 112: the guard
QM_EmptyBegin(t) ==
    /\ kind = "QueueMwCAS"
    /\ pc[t] = "idle"
    /\ ops[t] < MaxOps
    /\ CreateEpochGuard(t)
    /\ ops' = [ops EXCEPT ![t] = @ + 1]
    /\ pc' = [pc EXCEPT ![t] = "empty_load_front"]
    /\ UNCHANGED <<kind, driverVars, workerVars, containerVars, mwVars,
                   heapVars, epoch_counter, localVars, stale, uaf, histVars>>

\* empty, line 114
QM_EmptyLoadFront(t) ==
    /\ kind = "QueueMwCAS"
    /\ pc[t] = "empty_load_front"
    /\ front' = [front EXCEPT ![t] = front_]
    /\ pc' = [pc EXCEPT ![t] = "empty_load_next"]
    /\ UNCHANGED <<kind, driverVars, workerVars, containerVars, mwVars,
                   heapVars, epoch_counter, guard, x, new_node, back, next,
                   new_front, ops, stale, uaf, histVars>>

\* empty, line 115: Read(&front->next) == nullptr
QM_EmptyReadNext(t) ==
    /\ kind = "QueueMwCAS"
    /\ pc[t] = "empty_load_next"
    /\ hstack[t] = <<>>
    /\ uaf' = (uaf \/ DanglingAddr(t, front[t]))
    /\ LET o == ReadOutcome(t, front[t])
       IN  \/ /\ o.k = "val"
              /\ word' = [word EXCEPT ![t] = 0]
              /\ desc' = Retire(desc, mem, own, hstack, word')
              /\ empty_ret' = [empty_ret EXCEPT ![t] =
                                  IF o.v = kNullNode THEN "true" ELSE "false"]
              /\ LeaveEpochGuard(t)
              /\ pc' = [pc EXCEPT ![t] = "idle"]
              /\ front' = [front EXCEPT ![t] = kNullNode]
              /\ stale' = [stale EXCEPT ![t] = {}]
              /\ UNCHANGED <<kind, driverVars, workerVars, containerVars,
                             heapVars, epoch_counter, x, new_node, back, next,
                             new_front, own, hstack, ops, npush, done, before,
                             ret, phased>>
           \/ ReadPending(t, o)

QM_Step(t) ==
    \/ QM_PushBegin(t)
    \/ QM_PushReadBack(t)
    \/ QM_PushReturn(t)
    \/ QM_PopBegin(t)
    \/ QM_PopLoadFront(t)
    \/ QM_PopReadNext(t)
    \/ QM_PopCAS(t)
    \/ QM_PopElem(t)
    \/ QM_EmptyBegin(t)
    \/ QM_EmptyLoadFront(t)
    \/ QM_EmptyReadNext(t)
    \/ MwStep(t)

(***************************************************************************)
(* The queue after construction: one sentinel node, front_ = back_.        *)
(***************************************************************************)
QueueInit(k) ==
    /\ kind = k
    /\ mem = [a \in Addrs |-> IF a \in {FrontAddr, BackAddr} THEN 1 ELSE kNullNode]
    /\ elem = [n \in NodeIds |-> 0]
    /\ life = [n \in NodeIds |-> IF n = 1 THEN Live ELSE Free]
    /\ nalloc = 1
    /\ epoch_counter = 0
    /\ guard = [t \in Threads |-> NoGuard]
    /\ pc = [t \in Threads |-> "idle"]
    /\ x = [t \in Threads |-> 0]
    /\ new_node = [t \in Threads |-> kNullNode]
    /\ back = [t \in Threads |-> kNullNode]
    /\ next = [t \in Threads |-> kNullNode]
    /\ front = [t \in Threads |-> kNullNode]
    /\ new_front = [t \in Threads |-> kNullNode]
    /\ desc = [d \in DescIds |-> NoDesc]
    /\ own = [t \in Threads |-> 0]
    /\ hstack = [t \in Threads |-> <<>>]
    /\ word = [t \in Threads |-> 0]
    /\ ops = [t \in Threads |-> 0]
    /\ stale = [t \in Threads |-> {}]
    /\ uaf = FALSE
    /\ npush = 0
    /\ done = {}
    /\ before = {}
    /\ ret = [t \in Threads |-> <<>>]
    /\ phased = TRUE
    /\ empty_ret = [t \in Threads |-> "none"]
    /\ target_num_ = 0
    /\ operations_ = [t \in Threads |-> <<>>]
    /\ idx = [t \in Threads |-> 0]
    /\ old_val = [t \in Threads |-> 0]
    /\ new_desc = [t \in Threads |-> <<>>]
    /\ wild = FALSE
    /\ old_node = [t \in Threads |-> kNullNode]
    /\ prev_node = [t \in Threads |-> kNullNode]
    /\ tail_node = [t \in Threads |-> kNullNode]
    /\ dummy_node = [t \in Threads |-> kNullNode]
    /\ head_node = [t \in Threads |-> kNullNode]

InitQueue == \E k \in {"QueueCAS", "QueueMwCAS"} : QueueInit(k) /\ DriverIdle

NextQueue ==
    \/ \E t \in Threads : QC_Step(t)
    \/ \E t \in Threads : QM_Step(t)
    \/ AdvanceEpoch
    \/ \E n \in NodeIds : Reclaim(n)

SpecQueue == InitQueue /\ [][NextQueue]_vars

(***************************************************************************)
(* The earlier queue with two sentinel members                             *)
(* (src/container/queue_cas.hpp): front_.next is the oldest node, every    *)
(* node's next the node pushed after it, the newest node's next is &back_, *)
(* and back_.next is the newest node (&front_ when the queue is empty).    *)
(* The sentinels' next fields are the words FrontAddr and BackAddr.        *)
(***************************************************************************)

\* thread t dereferences p: a heap node that was freed under t?
DanglingNode(t, p) == p \in NodeIds /\ Dangling(t, p)

\* LoadByCAS(&(p->next))
LoadByCAS(t, p) == IF p \in NodeIds THEN LoadNext(t, p) ELSE {mem[p]}

\* the calls of the container queues in flight
Quiescent == \A t \in Threads : pc[t] = "idle"

\* push, lines 116-120: the guard, the newest node, and new Node{x, &back_}
CQ_PushBegin(t) ==
    /\ kind = "ContainerCAS"
    /\ pc[t] = "idle"
    /\ ops[t] < MaxOps
    /\ \E n \in Allocatable :
        /\ life' = [life EXCEPT ![n] = Live]
        /\ nalloc' = IF n > nalloc THEN n ELSE nalloc
        /\ mem' = [mem EXCEPT ![n] = BackAddr]
        /\ elem' = [elem EXCEPT ![n] = npush + 1]
        /\ new_node' = [new_node EXCEPT ![t] = n]
    /\ CreateEpochGuard(t)
    /\ old_node' = [old_node EXCEPT ![t] = mem[BackAddr]]
    /\ prev_node' = [prev_node EXCEPT ![t] = BackAddr]
    /\ x' = [x EXCEPT ![t] = npush + 1]
    /\ npush' = npush + 1
    /\ before' = before \cup {<<a, npush + 1>> : a \in done}
    /\ ops' = [ops EXCEPT ![t] = @ + 1]
    /\ pc' = [pc EXCEPT ![t] = "cpush_link"]
    /\ UNCHANGED <<kind, driverVars, workerVars, mwVars, epoch_counter, back,
                   next, front, new_front, stale, uaf, done, ret, phased,
                   empty_ret, tail_node, dummy_node, head_node>>

\* push, lines 123-130: link the new node behind old_node; when another
\* thread has pushed behind old_node, go on from its node
CQ_PushLink(t) ==
    /\ kind = "ContainerCAS"
    /\ pc[t] = "cpush_link"
    /\ old_node[t] # kNullNode
    /\ uaf' = (uaf \/ DanglingNode(t, old_node[t]))
    /\ \E v \in LoadByCAS(t, old_node[t]) :
        IF v = prev_node[t]
        THEN /\ mem' = [mem EXCEPT ![old_node[t]] = new_node[t]]
             /\ pc' = [pc EXCEPT ![t] = "cpush_swing"]
             /\ UNCHANGED <<old_node, prev_node>>
        ELSE /\ mem' = mem
             /\ IF v # kNullNode
                THEN /\ old_node' = [old_node EXCEPT ![t] = v]
                     /\ prev_node' = [prev_node EXCEPT ![t] = BackAddr]
                     /\ pc' = pc
                ELSE /\ prev_node' = [prev_node EXCEPT ![t] = kNullNode]
                     /\ pc' = [pc EXCEPT ![t] = "cpush_reload"]
                     /\ UNCHANGED old_node
    /\ UNCHANGED <<kind, driverVars, workerVars, mwVars, elem, life, nalloc,
                   epoch_counter, guard, localVars, ops, stale, histVars,
                   tail_node, dummy_node, head_node>>

\* push, lines 131-135: the target node was popped: load the newest node again
CQ_PushReload(t) ==
    /\ kind = "ContainerCAS"
    /\ pc[t] = "cpush_reload"
    /\ old_node' = [old_node EXCEPT ![t] = mem[BackAddr]]
    /\ prev_node' = [prev_node EXCEPT ![t] = BackAddr]
    /\ pc' = [pc EXCEPT ![t] = "cpush_link"]
    /\ UNCHANGED <<kind, driverVars, workerVars, mwVars, heapVars,
                   epoch_counter, guard, localVars, ops, stale, uaf, histVars,
                   tail_node, dummy_node, head_node>>

\* a push that returns without swapping the tail pointer
CQ_PushNoSwing(t) ==
    /\ kind = "ContainerCAS"
    /\ pc[t] = "cpush_swing"
    /\ LeaveEpochGuard(t)
    /\ done' = done \cup {x[t]}
    /\ pc' = [pc EXCEPT ![t] = "idle"]
    /\ x' = [x EXCEPT ![t] = 0]
    /\ new_node' = [new_node EXCEPT ![t] = kNullNode]
    /\ old_node' = [old_node EXCEPT ![t] = kNullNode]
    /\ prev_node' = [prev_node EXCEPT ![t] = kNullNode]
    /\ stale' = [stale EXCEPT ![t] = {}]
    /\ UNCHANGED <<kind, driverVars, workerVars, mwVars, heapVars,
                   epoch_counter, back, next, front, new_front, ops, uaf, npush,
                   before, ret, phased, empty_ret, tail_node, dummy_node,
                   head_node>>

\* push, lines 139-146: swap the tail pointer from old_node to the new node;
\* the loop spins until back_.next is old_node
CQ_PushSwing(t) ==
    /\ kind = "ContainerCAS"
    /\ pc[t] = "cpush_swing"
    /\ mem[BackAddr] = old_node[t]
    /\ mem' = [mem EXCEPT ![BackAddr] = new_node[t]]
    /\ LeaveEpochGuard(t)
    /\ done' = done \cup {x[t]}
    /\ pc' = [pc EXCEPT ![t] = "idle"]
    /\ x' = [x EXCEPT ![t] = 0]
    /\ new_node' = [new_node EXCEPT ![t] = kNullNode]
    /\ old_node' = [old_node EXCEPT ![t] = kNullNode]
    /\ prev_node' = [prev_node EXCEPT ![t] = kNullNode]
    /\ stale' = [stale EXCEPT ![t] = {}]
    /\ UNCHANGED <<kind, driverVars, workerVars, mwVars, elem, life, nalloc,
                   epoch_counter, back, next, front, new_front, ops, uaf, npush,
                   before, ret, phased, empty_ret, tail_node, dummy_node,
                   head_node>>

\* pop returns: the guard is dropped
CQ_Return(t) ==
    /\ LeaveEpochGuard(t)
    /\ pc' = [pc EXCEPT ![t] = "idle"]
    /\ old_node' = [old_node EXCEPT ![t] = kNullNode]
    /\ new_node' = [new_node EXCEPT ![t] = kNullNode]
    /\ stale' = [stale EXCEPT ![t] = {}]

\* pop, lines 151-153: the guard and the oldest node
CQ_PopBegin(t) ==
    /\ kind = "ContainerCAS"
    /\ pc[t] = "idle"
    /\ ops[t] < MaxOps
    /\ CreateEpochGuard(t)
    /\ old_node' = [old_node EXCEPT ![t] = mem[FrontAddr]]
    /\ ops' = [ops EXCEPT ![t] = @ + 1]
    /\ pc' = [pc EXCEPT ![t] = "cpop_next"]
    /\ UNCHANGED <<kind, driverVars, workerVars, mwVars, heapVars,
                   epoch_counter, localVars, stale, uaf, histVars, prev_node,
                   tail_node, dummy_node, head_node>>

\* pop, lines 155-161 and the branches at 162, 167 and 170: an empty queue
\* returns; else load old_node->next
CQ_PopLoadNext(t) ==
    /\ kind = "ContainerCAS"
    /\ pc[t] = "cpop_next"
    /\ old_node[t] # kNullNode
    /\ IF old_node[t] = BackAddr
       THEN /\ CQ_Return(t)
            /\ UNCHANGED uaf
       ELSE /\ uaf' = (uaf \/ DanglingNode(t, old_node[t]))
            /\ \E v \in LoadByCAS(t, old_node[t]) :
                /\ new_node' = [new_node EXCEPT ![t] = v]
                /\ pc' = [pc EXCEPT ![t] =
                            IF v = kNullNode THEN "cpop_reload"
                            ELSE IF v = BackAddr THEN "cpop_unlink"
                            ELSE "cpop_cas"]
            /\ UNCHANGED <<guard, old_node, stale>>
    /\ UNCHANGED <<kind, driverVars, workerVars, mwVars, heapVars,
                   epoch_counter, x, back, next, front, new_front, ops,
                   histVars, prev_node, tail_node, dummy_node, head_node>>

\* pop, lines 162-166 and 190: swap the head; on success retire old_node
CQ_PopCAS(t) ==
    /\ kind = "ContainerCAS"
    /\ pc[t] = "cpop_cas"
    /\ IF mem[FrontAddr] = old_node[t]
       THEN /\ mem' = [mem EXCEPT ![FrontAddr] = new_node[t]]
            /\ life' = IF old_node[t] \in NodeIds
                       THEN [life EXCEPT ![old_node[t]] = epoch_counter]
                       ELSE life
            /\ CQ_Return(t)
       ELSE /\ old_node' = [old_node EXCEPT ![t] = mem[FrontAddr]]
            /\ pc' = [pc EXCEPT ![t] = "cpop_next"]
            /\ UNCHANGED <<mem, life, guard, new_node, stale>>
    /\ UNCHANGED <<kind, driverVars, workerVars, mwVars, elem, nalloc,
                   epoch_counter, x, back, next, front, new_front, ops, uaf,
                   histVars, prev_node, tail_node, dummy_node, head_node>>

\* pop, lines 167-169 and 175-176: another thread has modified the queue
CQ_PopReload(t) ==
    /\ kind = "ContainerCAS"
    /\ pc[t] = "cpop_reload"
    /\ old_node' = [old_node EXCEPT ![t] = mem[FrontAddr]]
    /\ pc' = [pc EXCEPT ![t] = "cpop_next"]
    /\ UNCHANGED <<kind, driverVars, workerVars, mwVars, heapVars,
                   epoch_counter, guard, localVars, ops, stale, uaf, histVars,
                   prev_node, tail_node, dummy_node, head_node>>

\* pop, lines 170-177: old_node is the only node: take it off by swapping
\* its next from &back_ to nullptr
CQ_PopUnlink(t) ==
    /\ kind = "ContainerCAS"
    /\ pc[t] = "cpop_unlink"
    /\ uaf' = (uaf \/ DanglingNode(t, old_node[t]))
    /\ \E v \in LoadByCAS(t, old_node[t]) :
        IF v = BackAddr
        THEN /\ mem' = [mem EXCEPT ![old_node[t]] = kNullNode]
             /\ pc' = [pc EXCEPT ![t] = "cpop_front"]
        ELSE /\ mem' = mem
             /\ pc' = [pc EXCEPT ![t] = "cpop_reload"]
    /\ UNCHANGED <<kind, driverVars, workerVars, mwVars, elem, life, nalloc,
                   epoch_counter, guard, localVars, ops, stale, histVars,
                   containerVars>>

\* pop, lines 180-183: front_.next from old_node to &back_; the loop spins
\* until front_.next is old_node
CQ_PopSwapFront(t) ==
    /\ kind = "ContainerCAS"
    /\ pc[t] = "cpop_front"
    /\ mem[FrontAddr] = old_node[t]
    /\ mem' = [mem EXCEPT ![FrontAddr] = BackAddr]
    /\ pc' = [pc EXCEPT ![t] = "cpop_back"]
    /\ UNCHANGED <<kind, driverVars, workerVars, mwVars, elem, life, nalloc,
                   epoch_counter, guard, localVars, ops, stale, uaf, histVars,
                   containerVars>>

\* pop, lines 184-186: back_.next from old_node to &front_; the loop of
\* line 155 goes on with the same old_node
CQ_PopSwapBack(t) ==
    /\ kind = "ContainerCAS"
    /\ pc[t] = "cpop_back"
    /\ mem[BackAddr] = old_node[t]
    /\ mem' = [mem EXCEPT ![BackAddr] = FrontAddr]
    /\ pc' = [pc EXCEPT ![t] = "cpop_next"]
    /\ UNCHANGED <<kind, driverVars, workerVars, mwVars, elem, life, nalloc,
                   epoch_counter, guard, localVars, ops, stale, uaf, histVars,
                   containerVars>>

CQ_Step(t) ==
    \/ CQ_PushBegin(t)
    \/ CQ_PushLink(t)
    \/ CQ_PushReload(t)
    \/ CQ_PushSwing(t)
    \/ CQ_PopBegin(t)
    \/ CQ_PopLoadNext(t)
    \/ CQ_PopCAS(t)
    \/ CQ_PopReload(t)
    \/ CQ_PopUnlink(t)
    \/ CQ_PopSwapFront(t)
    \/ CQ_PopSwapBack(t)

(***************************************************************************)
(* The earlier MwCAS queue (src/container/queue_mwcas.hpp): front_ and     *)
(* back_ are pointers, front_ designates a dummy node; push swaps back_    *)
(* and the newest node's next, pop swaps front_, both by MwCAS.            *)
(***************************************************************************)

\* push, lines 97-99: the guard and new Node{x, nullptr}
CM_PushBegin(t) ==
    /\ kind = "ContainerMwCAS"
    /\ pc[t] = "idle"
    /\ ops[t] < MaxOps
    /\ \E n \in Allocatable :
        /\ life' = [life EXCEPT ![n] = Live]
        /\ nalloc' = IF n > nalloc THEN n ELSE nalloc
        /\ mem' = [mem EXCEPT ![n] = kNullNode]
        /\ elem' = [elem EXCEPT ![n] = npush + 1]
        /\ new_node' = [new_node EXCEPT ![t] = n]
    /\ CreateEpochGuard(t)
    /\ x' = [x EXCEPT ![t] = npush + 1]
    /\ npush' = npush + 1
    /\ before' = before \cup {<<a, npush + 1>> : a \in done}
    /\ ops' = [ops EXCEPT ![t] = @ + 1]
    /\ pc' = [pc EXCEPT ![t] = "cpush_read_back"]
    /\ UNCHANGED <<kind, driverVars, workerVars, mwVars, epoch_counter, back,
                   next, front, new_front, stale, uaf, done, ret, phased,
                   empty_ret, containerVars>>

\* push, lines 101-107: read back_, fill the descriptor and start the MwCAS
CM_PushReadBack(t) ==
    /\ kind = "ContainerMwCAS"
    /\ pc[t] = "cpush_read_back"
    /\ hstack[t] = <<>>
    /\ uaf' = uaf
    /\ LET o == ReadOutcome(t, BackAddr)
       IN  \/ /\ o.k = "val"
              /\ FreeDescs # {}
              /\ tail_node' = [tail_node EXCEPT ![t] = o.v]
              /\ word' = [word EXCEPT ![t] = 0]
              /\ own' = [own EXCEPT ![t] = NewDesc]
              /\ hstack' = [hstack EXCEPT ![t] = <<Frame(NewDesc, 1, "read")>>]
              /\ desc' = [Retire(desc, mem, own, hstack, word') EXCEPT ![NewDesc] =
                            [status |-> "Undecided",
                             entries |-> <<Target(BackAddr, o.v, new_node[t]),
                                           Target(o.v, kNullNode, new_node[t])>>]]
              /\ pc' = [pc EXCEPT ![t] = "cpush_mwcas"]
              /\ UNCHANGED <<kind, driverVars, workerVars, heapVars,
                             epoch_counter, guard, localVars, ops, stale,
                             histVars, old_node, prev_node, dummy_node,
                             head_node>>
           \/ ReadPending(t, o)

\* push, line 107: the MwCAS has returned; done when it succeeded, else retry
CM_PushReturn(t) ==
    /\ kind = "ContainerMwCAS"
    /\ pc[t] = "cpush_mwcas"
    /\ hstack[t] = <<>>
    /\ own' = [own EXCEPT ![t] = 0]
    /\ desc' = Retire(desc, mem, own', hstack, word)
    /\ tail_node' = [tail_node EXCEPT ![t] = kNullNode]
    /\ IF desc[own[t]].status = "Succeeded"
       THEN /\ LeaveEpochGuard(t)
            /\ done' = done \cup {x[t]}
            /\ pc' = [pc EXCEPT ![t] = "idle"]
            /\ x' = [x EXCEPT ![t] = 0]
            /\ new_node' = [new_node EXCEPT ![t] = kNullNode]
            /\ stale' = [stale EXCEPT ![t] = {}]
       ELSE /\ pc' = [pc EXCEPT ![t] = "cpush_read_back"]
            /\ UNCHANGED <<guard, done, x, new_node, stale>>
    /\ UNCHANGED <<kind, driverVars, workerVars, heapVars, epoch_counter, back,
                   next, front, new_front, hstack, word, ops, uaf, npush,
                   before, ret, phased, empty_ret, old_node, prev_node,
                   dummy_node, head_node>>

\* pop, line 114: the guard
CM_PopBegin(t) ==
    /\ kind = "ContainerMwCAS"
    /\ pc[t] = "idle"
    /\ ops[t] < MaxOps
    /\ CreateEpochGuard(t)
    /\ ops' = [ops EXCEPT ![t] = @ + 1]
    /\ pc' = [pc EXCEPT ![t] = "cpop_read_front"]
    /\ UNCHANGED <<kind, driverVars, workerVars, mwVars, heapVars,
                   epoch_counter, localVars, stale, uaf, histVars,
                   containerVars>>

\* pop, line 117: read front_
CM_PopReadFront(t) ==
    /\ kind = "ContainerMwCAS"
    /\ pc[t] = "cpop_read_front"
    /\ hstack[t] = <<>>
    /\ uaf' = uaf
    /\ LET o == ReadOutcome(t, FrontAddr)
       IN  \/ /\ o.k = "val"
              /\ dummy_node' = [dummy_node EXCEPT ![t] = o.v]
              /\ word' = [word EXCEPT ![t] = 0]
              /\ desc' = Retire(desc, mem, own, hstack, word')
              /\ pc' = [pc EXCEPT ![t] = "cpop_read_next"]
              /\ UNCHANGED <<kind, driverVars, workerVars, heapVars,
                             epoch_counter, guard, localVars, own, hstack, ops,
                             stale, histVars, old_node, prev_node, tail_node,
                             head_node>>
           \/ ReadPending(t, o)

\* pop, lines 118-128: read dummy_node->next; an empty queue returns; else
\* fill the descriptor and start the MwCAS on front_
CM_PopReadNext(t) ==
    /\ kind = "ContainerMwCAS"
    /\ pc[t] = "cpop_read_next"
    /\ hstack[t] = <<>>
    /\ uaf' = (uaf \/ DanglingAddr(t, dummy_node[t]))
    /\ LET o == ReadOutcome(t, dummy_node[t])
       IN  \/ /\ o.k = "val"
              /\ word' = [word EXCEPT ![t] = 0]
              /\ IF o.v = kNullNode
                 THEN /\ desc' = Retire(desc, mem, own, hstack, word')
                      /\ LeaveEpochGuard(t)
                      /\ pc' = [pc EXCEPT ![t] = "idle"]
                      /\ dummy_node' = [dummy_node EXCEPT ![t] = kNullNode]
                      /\ stale' = [stale EXCEPT ![t] = {}]
                      /\ UNCHANGED <<head_node, own, hstack>>
                 ELSE /\ FreeDescs # {}
                      /\ head_node' = [head_node EXCEPT ![t] = o.v]
                      /\ own' = [own EXCEPT ![t] = NewDesc]
                      /\ hstack' = [hstack EXCEPT ![t] = <<Frame(NewDesc, 1, "read")>>]
                      /\ desc' = [Retire(desc, mem, own, hstack, word')
                                    EXCEPT ![NewDesc] =
                                    [status |-> "Undecided",
                                     entries |-> <<Target(FrontAddr, dummy_node[t], o.v)>>]]
                      /\ pc' = [pc EXCEPT ![t] = "cpop_mwcas"]
                      /\ UNCHANGED <<guard, dummy_node, stale>>
              /\ UNCHANGED <<kind, driverVars, workerVars, heapVars,
                             epoch_counter, localVars, ops, histVars, old_node,
                             prev_node, tail_node>>
           \/ ReadPending(t, o)

\* pop, lines 128-131: the MwCAS has returned; on success retire dummy_node
CM_PopReturn(t) ==
    /\ kind = "ContainerMwCAS"
    /\ pc[t] = "cpop_mwcas"
    /\ hstack[t] = <<>>
    /\ own' = [own EXCEPT ![t] = 0]
    /\ desc' = Retire(desc, mem, own', hstack, word)
    /\ dummy_node' = [dummy_node EXCEPT ![t] = kNullNode]
    /\ head_node' = [head_node EXCEPT ![t] = kNullNode]
    /\ IF desc[own[t]].status = "Succeeded"
       THEN /\ life' = [life EXCEPT ![dummy_node[t]] = epoch_counter]
            /\ LeaveEpochGuard(t)
            /\ pc' = [pc EXCEPT ![t] = "idle"]
            /\ stale' = [stale EXCEPT ![t] = {}]
       ELSE /\ pc' = [pc EXCEPT ![t] = "cpop_read_front"]
            /\ UNCHANGED <<life, guard, stale>>
    /\ UNCHANGED <<kind, driverVars, workerVars, mem, elem, nalloc,
                   epoch_counter, localVars, hstack, word, ops, uaf, histVars,
                   old_node, prev_node, tail_node>>

CM_Step(t) ==
    \/ CM_PushBegin(t)
    \/ CM_PushReadBack(t)
    \/ CM_PushReturn(t)
    \/ CM_PopBegin(t)
    \/ CM_PopReadFront(t)
    \/ CM_PopReadNext(t)
    \/ CM_PopReturn(t)
    \/ MwStep(t)

\* the queues after construction: QueueCAS links its two sentinels to each
\* other, QueueMwCAS points front_ and back_ to one dummy node
InitContainer ==
    /\ DriverIdle
    /\ kind \in {"ContainerCAS", "ContainerMwCAS"}
    /\ mem = [a \in Addrs |->
                IF kind = "ContainerCAS"
                THEN (IF a = FrontAddr THEN BackAddr
                      ELSE IF a = BackAddr THEN FrontAddr ELSE kNullNode)
                ELSE (IF a \in {FrontAddr, BackAddr} THEN 1 ELSE kNullNode)]
    /\ elem = [n \in NodeIds |-> 0]
    /\ life = [n \in NodeIds |->
                 IF kind = "ContainerMwCAS" /\ n = 1 THEN Live ELSE Free]
    /\ nalloc = IF kind = "ContainerMwCAS" THEN 1 ELSE 0
    /\ epoch_counter = 0
    /\ guard = [t \in Threads |-> NoGuard]
    /\ pc = [t \in Threads |-> "idle"]
    /\ x = [t \in Threads |-> 0]
    /\ new_node = [t \in Threads |-> kNullNode]
    /\ back = [t \in Threads |-> kNullNode]
    /\ next = [t \in Threads |-> kNullNode]
    /\ front = [t \in Threads |-> kNullNode]
    /\ new_front = [t \in Threads |-> kNullNode]
    /\ desc = [d \in DescIds |-> NoDesc]
    /\ own = [t \in Threads |-> 0]
    /\ hstack = [t \in Threads |-> <<>>]
    /\ word = [t \in Threads |-> 0]
    /\ ops = [t \in Threads |-> 0]
    /\ stale = [t \in Threads |-> {}]
    /\ uaf = FALSE
    /\ npush = 0
    /\ done = {}
    /\ before = {}
    /\ ret = [t \in Threads |-> <<>>]
    /\ phased = TRUE
    /\ empty_ret = [t \in Threads |-> "none"]
    /\ target_num_ = 0
    /\ operations_ = [t \in Threads |-> <<>>]
    /\ idx = [t \in Threads |-> 0]
    /\ old_val = [t \in Threads |-> 0]
    /\ new_desc = [t \in Threads |-> <<>>]
    /\ wild = FALSE
    /\ old_node = [t \in Threads |-> kNullNode]
    /\ prev_node = [t \in Threads |-> kNullNode]
    /\ tail_node = [t \in Threads |-> kNullNode]
    /\ dummy_node = [t \in Threads |-> kNullNode]
    /\ head_node = [t \in Threads |-> kNullNode]

NextContainer ==
    \/ \E t \in Threads : CQ_Step(t)
    \/ \E t \in Threads : CM_Step(t)
    \/ AdvanceEpoch
    \/ \E n \in NodeIds : Reclaim(n)

SpecContainer == InitContainer /\ [][NextContainer]_vars

\* QueueCAS::IsValid, lines 201-213: can the walk from front_ still take k
\* steps to reach &back_, and is back_.next the node before it?
RECURSIVE WalkCAS(_, _, _)
WalkCAS(prev, current_node, k) ==
    IF current_node = BackAddr THEN mem[BackAddr] = prev
    ELSE IF k = 0 \/ current_node \notin Addrs THEN FALSE
    ELSE IF current_node \in NodeIds /\ life[current_node] = Free THEN FALSE
    ELSE WalkCAS(current_node, mem[current_node], k - 1)

\* QueueMwCAS::IsValid, lines 144-156: the walk to the node whose next is
\* nullptr ends at back_
RECURSIVE WalkMwCAS(_, _, _)
WalkMwCAS(prev, current_node, k) ==
    IF current_node = kNullNode THEN prev = back_
    ELSE IF k = 0 \/ current_node \notin NodeIds THEN FALSE
    ELSE IF life[current_node] = Free THEN FALSE
    ELSE WalkMwCAS(current_node, mem[current_node], k - 1)

IsValid ==
    IF kind = "ContainerCAS"
    THEN WalkCAS(FrontAddr, mem[FrontAddr], MaxNode + 2)
    ELSE /\ front_ \in NodeIds
         /\ life[front_] # Free
         /\ WalkMwCAS(front_, mem[front_], MaxNode + 2)

(***************************************************************************)
(* The benchmark workers (src/worker.hpp).  The target fields are the      *)
(* words 1..NumFields; every operation increments its targets.             *)
(***************************************************************************)
Fields == 1..NumFields

\* the values a slot of the target array may hold: a field's address, or
\* an address below (0) or above (NumFields + 1) all fields
Pointers == 0..(NumFields + 1)

\* lines 293-301: the first n slots hold n distinct fields; the constructor
\* leaves the other slots of the array uninitialized
Arrays(n) ==
    {a \in [1..kMaxTargetNum -> Pointers] :
        /\ \A j \in 1..n : a[j] \in Fields
        /\ \A j, k \in 1..n : j # k => a[j] # a[k]}

\* line 304: std::sort(targets.begin(), targets.end())
SortArray(a) ==
    CHOOSE b \in [DOMAIN a -> Pointers] :
        /\ \A j, k \in DOMAIN a : j < k => b[j] <= b[k]
        /\ \A v \in Pointers :
              Cardinality({j \in DOMAIN a : b[j] = v})
                  = Cardinality({j \in DOMAIN a : a[j] = v})

\* the targets PerformMwCAS visits: positions [0, target_num) of the array
OpLists(n) == {SubSeq(SortArray(a), 1, n) : a \in Arrays(n)}

\* no worker has brought the process down; a crash ends every thread
Alive == \A t \in Threads : pc[t] # "crashed"

\* the first position of PerformMwCAS
StartPc == IF kind = "WorkerMwCAS" THEN "w_read" ELSE "w_load"

\* the operation worker t is executing, and its current target
Op(t) == operations_[t][ops[t] + 1]
Addr(t) == Op(t)[idx[t]]

\* lines 277-308: the constructor generates the operation queue
W_Construct(t) ==
    /\ kind \in {"WorkerMwCAS", "WorkerSingleCAS"}
    /\ pc[t] = "new"
    /\ \E o \in [1..operation_counts -> OpLists(target_num_)] :
        operations_' = [operations_ EXCEPT ![t] = o]
    /\ idx' = [idx EXCEPT ![t] = 1]
    /\ pc' = [pc EXCEPT ![t] = StartPc]
    /\ UNCHANGED <<kind, driverVars, mwVars, mem, queueVars, ops, target_num_,
                   old_val, new_desc, wild>>

\* PerformMwCAS has returned: the next operation of MeasureThroughput
\* (lines 350-352)
Complete(t) ==
    /\ ops' = [ops EXCEPT ![t] = @ + 1]
    /\ idx' = [idx EXCEPT ![t] = 1]
    /\ pc' = [pc EXCEPT ![t] =
                 IF ops[t] + 1 < Len(operations_[t]) THEN StartPc ELSE "finished"]

\* Worker<MwCAS>, lines 436-441: target i has been added to desc (or its
\* address was no field); after the last one, line 443 starts the MwCAS
WM_Added(t, es) ==
    IF idx[t] < target_num_
    THEN /\ idx' = [idx EXCEPT ![t] = @ + 1]
         /\ new_desc' = [new_desc EXCEPT ![t] = es]
         /\ desc' = Retire(desc, mem, own, hstack, word')
         /\ UNCHANGED <<pc, ops, own, hstack>>
    ELSE /\ new_desc' = [new_desc EXCEPT ![t] = <<>>]
         /\ IF es = <<>>
            THEN /\ Complete(t)
                 /\ desc' = Retire(desc, mem, own, hstack, word')
                 /\ UNCHANGED <<own, hstack>>
            ELSE /\ FreeDescs # {}
                 /\ own' = [own EXCEPT ![t] = NewDesc]
                 /\ hstack' = [hstack EXCEPT ![t] = <<Frame(NewDesc, 1, "read")>>]
                 /\ desc' = [Retire(desc, mem, own, hstack, word') EXCEPT ![NewDesc] =
                               [status |-> "Undecided", entries |-> es]]
                 /\ idx' = [idx EXCEPT ![t] = 1]
                 /\ pc' = [pc EXCEPT ![t] = "w_mwcas"]
                 /\ UNCHANGED ops

\* Worker<MwCAS>, lines 437-440: ReadMwCASField and AddMwCASTarget
WM_ReadField(t) ==
    /\ kind = "WorkerMwCAS"
    /\ pc[t] = "w_read"
    /\ hstack[t] = <<>>
    /\ Alive
    /\ IF Addr(t) \notin Fields
       THEN /\ wild' = TRUE
            /\ \/ /\ pc' = [pc EXCEPT ![t] = "crashed"]
                  /\ hstack' = [u \in Threads |-> <<>>]
                  /\ UNCHANGED <<ops, idx, new_desc, desc, own, word>>
               \/ /\ word' = word
                  /\ WM_Added(t, new_desc[t])
            /\ UNCHANGED <<kind, driverVars, mem, queueVars, target_num_,
                           operations_, old_val>>
       ELSE LET o == ReadOutcome(t, Addr(t))
            IN  \/ /\ o.k = "val"
                   /\ word' = [word EXCEPT ![t] = 0]
                   /\ WM_Added(t, Append(new_desc[t], Target(Addr(t), o.v, o.v + 1)))
                   /\ UNCHANGED <<kind, driverVars, mem, queueVars, target_num_,
                                  operations_, old_val, wild>>
                \/ /\ ReadPending(t, o)
                   /\ UNCHANGED uaf

\* Worker<MwCAS>, line 443: break when the MwCAS succeeded, else retry
WM_Return(t) ==
    /\ kind = "WorkerMwCAS"
    /\ pc[t] = "w_mwcas"
    /\ hstack[t] = <<>>
    /\ Alive
    /\ own' = [own EXCEPT ![t] = 0]
    /\ desc' = Retire(desc, mem, own', hstack, word)
    /\ IF desc[own[t]].status = "Succeeded"
       THEN Complete(t)
       ELSE /\ pc' = [pc EXCEPT ![t] = "w_read"]
            /\ UNCHANGED <<ops, idx>>
    /\ UNCHANGED <<kind, driverVars, mem, queueVars, hstack, word, target_num_,
                   operations_, old_val, new_desc, wild>>

\* Worker<SingleCAS>, line 473: the next target of the operation
WS_Next(t) ==
    IF idx[t] < target_num_
    THEN /\ idx' = [idx EXCEPT ![t] = @ + 1]
         /\ pc' = [pc EXCEPT ![t] = "w_load"]
         /\ UNCHANGED ops
    ELSE Complete(t)

\* Worker<SingleCAS>, lines 474-475: old_val = target->load()
WS_Load(t) ==
    /\ kind = "WorkerSingleCAS"
    /\ pc[t] = "w_load"
    /\ Alive
    /\ IF Addr(t) \notin Fields
       THEN /\ wild' = TRUE
            /\ \/ /\ pc' = [pc EXCEPT ![t] = "crashed"]
                  /\ UNCHANGED <<ops, idx>>
               \/ WS_Next(t)
            /\ UNCHANGED old_val
       ELSE /\ old_val' = [old_val EXCEPT ![t] = mem[Addr(t)]]
            /\ pc' = [pc EXCEPT ![t] = "w_cas"]
            /\ UNCHANGED <<ops, idx, wild>>
    /\ UNCHANGED <<kind, driverVars, mwVars, mem, queueVars, target_num_,
                   operations_, new_desc>>

\* a worker that stores old_val + 1 without comparing
WS_Store(t) ==
    /\ kind = "WorkerSingleCAS"
    /\ pc[t] = "w_cas"
    /\ Alive
    /\ mem' = [mem EXCEPT ![Addr(t)] = old_val[t] + 1]
    /\ WS_Next(t)
    /\ UNCHANGED old_val
    /\ UNCHANGED <<kind, driverVars, mwVars, queueVars, target_num_,
                   operations_, new_desc, wild>>

\* Worker<SingleCAS>, lines 476-479: compare_exchange_weak(old_val, old_val + 1)
WS_CAS(t) ==
    /\ kind = "WorkerSingleCAS"
    /\ pc[t] = "w_cas"
    /\ Alive
    /\ IF mem[Addr(t)] = old_val[t]
       THEN /\ mem' = [mem EXCEPT ![Addr(t)] = old_val[t] + 1]
            /\ WS_Next(t)
            /\ UNCHANGED old_val
       ELSE /\ old_val' = [old_val EXCEPT ![t] = mem[Addr(t)]]
            /\ UNCHANGED <<mem, pc, ops, idx>>
    /\ UNCHANGED <<kind, driverVars, mwVars, queueVars, target_num_,
                   operations_, new_desc, wild>>

\* the workers before their construction: every field is 0
InitWorker ==
    /\ DriverIdle
    /\ kind \in {"WorkerMwCAS", "WorkerSingleCAS"}
    /\ target_num_ \in 1..(IF NumFields < kMaxTargetNum THEN NumFields
                            ELSE kMaxTargetNum)
    /\ mem = [a \in Addrs |-> 0]
    /\ elem = [n \in NodeIds |-> 0]
    /\ life = [n \in NodeIds |-> Free]
    /\ nalloc = 0
    /\ epoch_counter = 0
    /\ guard = [t \in Threads |-> NoGuard]
    /\ pc = [t \in Threads |-> "new"]
    /\ x = [t \in Threads |-> 0]
    /\ new_node = [t \in Threads |-> kNullNode]
    /\ back = [t \in Threads |-> kNullNode]
    /\ next = [t \in Threads |-> kNullNode]
    /\ front = [t \in Threads |-> kNullNode]
    /\ new_front = [t \in Threads |-> kNullNode]
    /\ desc = [d \in DescIds |-> NoDesc]
    /\ own = [t \in Threads |-> 0]
    /\ hstack = [t \in Threads |-> <<>>]
    /\ word = [t \in Threads |-> 0]
    /\ ops = [t \in Threads |-> 0]
    /\ stale = [t \in Threads |-> {}]
    /\ uaf = FALSE
    /\ npush = 0
    /\ done = {}
    /\ before = {}
    /\ ret = [t \in Threads |-> <<>>]
    /\ phased = TRUE
    /\ empty_ret = [t \in Threads |-> "none"]
    /\ operations_ = [t \in Threads |-> <<>>]
    /\ idx = [t \in Threads |-> 0]
    /\ old_val = [t \in Threads |-> 0]
    /\ new_desc = [t \in Threads |-> <<>>]
    /\ wild = FALSE
    /\ old_node = [t \in Threads |-> kNullNode]
    /\ prev_node = [t \in Threads |-> kNullNode]
    /\ tail_node = [t \in Threads |-> kNullNode]
    /\ dummy_node = [t \in Threads |-> kNullNode]
    /\ head_node = [t \in Threads |-> kNullNode]

NextWorker ==
    \/ \E t \in Threads : W_Construct(t)
    \/ \E t \in Threads : WM_ReadField(t)
    \/ \E t \in Threads : MwStep(t)
    \/ \E t \in Threads : WM_Return(t)
    \/ \E t \in Threads : WS_Load(t)
    \/ \E t \in Threads : WS_CAS(t)

SpecWorker == InitWorker /\ [][NextWorker]_vars

\* the executed operations whose target list contains field f
Count(f) ==
    SumOver(Threads, [t \in Threads |->
        Cardinality({j \in 1..ops[t] :
                        \E k \in DOMAIN operations_[t][j] : operations_[t][j][k] = f})])

(***************************************************************************)
(* What the queue holds and what the pops have taken.                      *)
(***************************************************************************)

\* the value a word stands for: a descriptor stands for its desired value
\* once it has succeeded and for its expected value before
Logical(a) ==
    IF IsDescriptor(mem[a])
    THEN LET d == DecodeDescriptor(mem[a])
         IN  IF desc[d].status = "Succeeded" THEN EntryFor(d, a).des
             ELSE EntryFor(d, a).exp
    ELSE mem[a]

\* the nodes linked behind node n, following at most k links
RECURSIVE ChainFrom(_, _)
ChainFrom(n, k) ==
    IF k = 0 \/ Logical(n) = kNullNode THEN <<>>
    ELSE <<Logical(n)>> \o ChainFrom(Logical(n), k - 1)

\* the nodes behind the sentinel, and their elements
Chain == ChainFrom(front_, MaxNode)
QueueValues == {elem[Chain[i]] : i \in DOMAIN Chain}

\* the pops that have unlinked a node and not returned yet
Taking == {t \in Threads : pc[t] = "pop_elem"}

\* the elements pops have taken, and how many pops have taken one
TakenSet ==
    (UNION {{ret[t][i] : i \in DOMAIN ret[t]} : t \in Threads} \ {None})
        \cup {elem[new_front[t]] : t \in Taking}
TakenCount ==
    SumOver(Threads, [t \in Threads |->
                        Cardinality({i \in DOMAIN ret[t] : ret[t][i] # None})])
        + Cardinality(Taking)
NoneSeen == \E t \in Threads : \E i \in DOMAIN ret[t] : ret[t][i] = None
PopsCompleted == SumOver(Threads, [t \in Threads |-> Len(ret[t])])

\* C1: FIFO order.  When push(a) returned before push(b) was invoked, b is
\* not taken out of the queue unless a has been taken out, and a consumer
\* that pops both obtains a before b.
FIFO ==
    \A p \in before :
        /\ p[2] \in TakenSet => p[1] \in TakenSet
        /\ \A t \in Threads : \A i, j \in DOMAIN ret[t] :
              ret[t][i] = p[1] /\ ret[t][j] = p[2] => i < j

\* a consumer has popped two elements whose pushes were ordered
FIFOWitness ==
    \E p \in before : \E t \in Threads : \E i, j \in DOMAIN ret[t] :
        ret[t][i] = p[1] /\ ret[t][j] = p[2]

\* C2: no push is lost or duplicated.  Once the concurrent pushes have all
\* returned, and no pop was invoked before, the elements taken and the
\* elements still linked are exactly the pushed ones, each once; a pop
\* reports empty only after all of them were taken.
NoLostPush ==
    (phased /\ ~PushInFlight) =>
        /\ TakenSet \cup QueueValues = 1..npush
        /\ TakenCount + Len(Chain) = npush
        /\ NoneSeen => (Chain = <<>> /\ TakenCount = npush)

\* every thread has pushed concurrently with the others, and the pops that
\* followed have emptied the queue
NoLostPushWitness ==
    /\ phased
    /\ npush = NumThreads
    /\ before = {}
    /\ \A t \in Threads : pc[t] = "idle"
    /\ Chain = <<>>
    /\ TakenCount = npush

\* C3: no element is popped twice.  No two pops take the same element, and
\* once as many pops have completed as the queue held elements it is empty.
NoDoublePop ==
    /\ Cardinality(TakenSet) = TakenCount
    /\ (phased /\ ~PushInFlight /\ PopsCompleted >= npush) => Chain = <<>>

\* two pops race for the same node, and one of them has unlinked it
NoDoublePopWitness ==
    \E t, u \in Threads :
        /\ pc[t] = "pop_elem"
        /\ pc[u] = "pop_cas"
        /\ front[u] = front[t]
        /\ phased

\* C7: no use-after-free.  A retired node is not dropped while a thread that
\* entered its guard at or before the retire epoch is still inside, and no
\* operation dereferences a node that was freed while it held it.
NoUseAfterFree ==
    [][/\ ~uaf'
       /\ \A n \in NodeIds :
            (life[n] >= 0 /\ life'[n] = Free) =>
                \A t \in Threads : guard[t] = NoGuard \/ guard[t] > life[n]]_vars

\* a retired node has been dropped and its address handed out again while
\* another thread, inside its guard, still holds a retired node
NoUseAfterFreeWitness ==
    \E n \in NodeIds : \E t \in Threads :
        /\ life[n] >= 0
        /\ guard[t] # NoGuard
        /\ n \in Held(t)
        /\ \E m \in NodeIds \ {n} : m <= nalloc /\ life[m] = Free

(***************************************************************************)
(* Progress.  Thread 1 keeps taking steps; every other thread may stop at  *)
(* any point of its operation, for ever.                                   *)
(***************************************************************************)
\* the steps of the running thread
Running == QC_Step(1) \/ QM_Step(1)

SpecLockFree == SpecQueue /\ WF_vars(Running)

\* the calls that have returned
Completed == Cardinality(done) + PopsCompleted

\* C10: lock-freedom.  If the running thread has a call pending for ever,
\* calls keep returning: no call is pending for ever while nothing returns,
\* wherever the other threads are suspended.
LockFree ==
    (<>[](pc[1] # "idle")) => ([]<><<Completed' > Completed>>_vars)

\* a push is suspended after it took effect, and a push invoked after it
\* has returned
LockFreeWitness ==
    \E u \in Threads :
        /\ x[u] # 0
        /\ x[u] \in QueueValues
        /\ \E b \in done : b > x[u]
\* every operation lists target_num_ distinct fields in ascending order
WellFormed ==
    \A t \in Threads : \A j \in DOMAIN operations_[t] :
        LET l == operations_[t][j]
        IN  /\ \A k \in DOMAIN l : l[k] \in Fields
            /\ \A k, m \in DOMAIN l : k < m => l[k] < l[m]

\* all workers have returned from MeasureThroughput
AllFinished == \A t \in Threads : pc[t] = "finished"

\* C6: once all workers have finished, every target field's value equals
\* the number of executed operations whose target list contains the field,
\* for Worker<MwCAS> and for Worker<SingleCAS>
NoLostIncrement ==
    AllFinished => \A f \in Fields : mem[f] = Count(f)

\* the same for the workers whose operations are well formed
NoLostIncrementWellFormed ==
    (AllFinished /\ WellFormed) => \A f \in Fields : mem[f] = Count(f)

\* C9: whenever no operation is in flight, after any interleaving of pushes
\* and pops (pops on an empty queue included), the walk along the next links
\* from front reaches the node back designates, and that node ends the
\* chain: IsValid() returns true
QueueKeepValid == Quiescent => IsValid

\* pushes and pops have run, a pop has emptied the queue, and nothing is in
\* flight
QueueKeepValidWitness ==
    /\ Quiescent
    /\ npush >= 1
    /\ done = 1..npush
    /\ \A t \in Threads : ops[t] = MaxOps
    /\ Logical(FrontAddr) = (IF kind = "ContainerCAS" THEN BackAddr ELSE back_)

\* descriptor d is decided in this step
Succeeds(d) == desc[d].status = "Undecided" /\ desc'[d].status = "Succeeded"
Fails(d) == desc[d].status = "Undecided" /\ desc'[d].status = "Failed"

\* the addresses descriptor d targets
AddrsOf(d) == {desc[d].entries[k].addr : k \in DOMAIN desc[d].entries}

\* C4: an MwCAS that returns true is atomic: at its linearization moment,
\* the CAS of its status to Succeeded, every target word holds the
\* descriptor, and as a protected read sees them all target words change
\* from the expected to the desired value at once; at no other step does the
\* value of a word change, so no state shows only some of the entries changed
MwCASAtomic ==
    [][kind = "WorkerMwCAS" =>
        /\ \A d \in DescIds : Succeeds(d) =>
              /\ \A k \in DOMAIN desc[d].entries :
                    LET e == desc[d].entries[k]
                    IN  /\ mem[e.addr] = EncodeDescriptor(d)
                        /\ Logical(e.addr) = e.exp
                        /\ Logical(e.addr)' = e.des
              /\ \A f \in Fields \ AddrsOf(d) : Logical(f)' = Logical(f)
        /\ (\A d \in DescIds : ~Succeeds(d)) =>
              \A f \in Fields : Logical(f)' = Logical(f)]_vars

\* an MwCAS on two fields has succeeded; one word holds the desired value
\* already and the other one still the descriptor
MwCASAtomicWitness ==
    /\ kind = "WorkerMwCAS"
    /\ \E d \in DescIds :
        /\ desc[d].status = "Succeeded"
        /\ Len(desc[d].entries) = 2
        /\ desc[d].entries[1].addr # desc[d].entries[2].addr
        /\ mem[desc[d].entries[1].addr] = desc[d].entries[1].des
        /\ mem[desc[d].entries[2].addr] = EncodeDescriptor(d)

\* C5: an MwCAS that returns false is justified and leaves no trace: when
\* its status becomes Failed some target word differs from its expected
\* value; a word takes the descriptor only in place of the expected value,
\* and a descriptor that has not succeeded is replaced by the expected value
MwCASFailure ==
    [][kind = "WorkerMwCAS" =>
        \A d \in DescIds :
            /\ Fails(d) =>
                  \E k \in DOMAIN desc[d].entries :
                      Logical(desc[d].entries[k].addr) # desc[d].entries[k].exp
            /\ \A a \in Fields :
                /\ (mem[a] # EncodeDescriptor(d) /\ mem'[a] = EncodeDescriptor(d))
                      => mem[a] = EntryFor(d, a).exp
                /\ (mem[a] = EncodeDescriptor(d) /\ mem'[a] # EncodeDescriptor(d)
                        /\ desc[d].status # "Succeeded")
                      => (desc[d].status = "Failed" /\ mem'[a] = EntryFor(d, a).exp)]_vars

\* an MwCAS has failed at its second target while its first target holds
\* the descriptor
MwCASFailureWitness ==
    /\ kind = "WorkerMwCAS"
    /\ \E d \in DescIds :
        /\ desc[d].status = "Failed"
        /\ Len(desc[d].entries) = 2
        /\ mem[desc[d].entries[1].addr] = EncodeDescriptor(d)
        /\ \E t \in Threads : own[t] = d

\* the value the descriptor in w stands for at address a, once decided
Unwrapped(w, a) ==
    LET d == DecodeDescriptor(w)
    IN  IF desc[d].status = "Succeeded" THEN EntryFor(d, a).des
        ELSE EntryFor(d, a).exp

\* C8: a protected read of an MwCAS target word never returns an encoded
\* descriptor reference: what push reads from back_ and pop from front->next
\* is a user value, the desired value of a descriptor that has succeeded and
\* the expected value of one that has failed
ReadUnwraps ==
    [][\A t \in Threads :
        /\ ~IsDescriptor(back'[t])
        /\ ~IsDescriptor(new_front'[t])
        /\ (kind = "QueueMwCAS" /\ pc[t] = "pop_load_next" /\ pc'[t] = "pop_cas") =>
              /\ word[t] = 0 => new_front'[t] = mem[front[t]]
              /\ word[t] # 0 =>
                    /\ desc[DecodeDescriptor(word[t])].status # "Undecided"
                    /\ new_front'[t] = Unwrapped(word[t], front[t])]_vars

\* a pop has read front->next while the word holds the descriptor of a push
ReadUnwrapsWitness ==
    /\ kind = "QueueMwCAS"
    /\ \E t \in Threads :
        /\ pc[t] = "pop_cas"
        /\ IsDescriptor(mem[front[t]])
        /\ new_front[t] = Logical(front[t])


\* thread t's pop returns std::nullopt in this step
ReturnsNone(t) ==
    /\ Len(ret'[t]) = Len(ret[t]) + 1
    /\ ret'[t][Len(ret'[t])] = None

\* C11: pop on an empty queue returns None immediately: the step of pop that
\* finds front->next null returns None itself, without another iteration,
\* and a pop returns None only there; that step leaves front_, back_, every
\* next link and the retired nodes as they are
PopEmptyNone ==
    [][\A t \in Threads :
        /\ ReturnsNone(t) =>
              /\ pc[t] = "pop_load_next"
              /\ Logical(front[t]) = kNullNode
              /\ mem' = mem
              /\ life' = life
              /\ elem' = elem
              /\ nalloc' = nalloc
        /\ (pc[t] = "pop_load_next" /\ pc'[t] # pc[t] /\ mem[front[t]] = kNullNode)
              => (ReturnsNone(t) /\ pc'[t] = "idle")]_vars

\* a pop on the queue as constructed has returned None
PopEmptyNoneWitness ==
    /\ npush = 0
    /\ \E t \in Threads : ret[t] = <<None>> /\ pc[t] = "idle"
    /\ front_ = back_
    /\ Logical(front_) = kNullNode


\* one push and then one pop have run on the queue as constructed, the pop
\* invoked after the push had returned, and no other call was made
PushThenPop ==
    /\ phased
    /\ npush = 1
    /\ done = {1}
    /\ PopsCompleted = 1
    /\ SumOver(Threads, ops) = 2
    /\ \A t \in Threads : pc[t] = "idle"

\* C12: round trip: on an empty queue without concurrent operations, push(x)
\* followed by pop() returns Some(x) and leaves the queue empty and valid
\* (back_ designates the node front_ designates, whose next is null)
RoundTrip ==
    PushThenPop =>
        /\ \E t \in Threads : ret[t] = <<1>>
        /\ Chain = <<>>
        /\ mem[front_] = kNullNode
        /\ back_ = front_

\* the round trip made by two different threads
RoundTripWitness ==
    /\ PushThenPop
    /\ \E t \in Threads : ops[t] = 1 /\ ret[t] # <<>>


\* the pops that have returned an element
RemovedCount ==
    SumOver(Threads, [t \in Threads |->
        Cardinality({i \in 1..Len(ret[t]) : ret[t][i] # None})])

\* thread t's call of empty() returns in this step
EmptyReturns(t) ==
    /\ pc[t] \in {"empty_load_next", "empty_read_next"}
    /\ pc'[t] = "idle"

\* C13: empty() returns whether the next link of the front node it loaded is
\* null; when it returns while no other call is in flight and front_ is the
\* node it loaded, it returns true exactly when as many pushes have completed
\* as pops have removed an element; and in every state without a call in
\* flight front_->next is null exactly then
EmptySemantics ==
    /\ [][\A t \in Threads : EmptyReturns(t) =>
            /\ empty_ret'[t] =
                  (IF Logical(front[t]) = kNullNode THEN "true" ELSE "false")
            /\ ((\A u \in Threads \ {t} : pc[u] = "idle") /\ front[t] = front_)
                  => ((empty_ret'[t] = "true")
                         <=> (Cardinality(done) = RemovedCount))]_vars
    /\ []((\A t \in Threads : pc[t] = "idle")
            => ((Logical(front_) = kNullNode)
                   <=> (Cardinality(done) = RemovedCount)))

\* empty() has returned true after a push and a pop, and false after a push
EmptySemanticsWitness ==
    /\ \A t \in Threads : pc[t] = "idle"
    /\ \E t, u \in Threads :
        /\ empty_ret[t] = "true" /\ Cardinality(done) = 1 /\ RemovedCount = 1
        /\ empty_ret[u] = "false"


\* ---------------------------------------------------------------------------
\* The benchmark driver, src/mwcas_bench.hpp: main runs RunMwCASBench, every
\* detached thread runs RunWorker; they meet at the two global shared mutexes.
\* ---------------------------------------------------------------------------

\* the worker threads of the run
BenchThreads == 1..thread_num_

\* lines 362-363: the operations handed to the i-th worker
ExecNum(i) ==
    IF i < thread_num_ THEN exec_num_ \div thread_num_
    ELSE exec_num_ - (thread_num_ - 1) * (exec_num_ \div thread_num_)

\* std::unique_lock on m can be taken
CanLockUnique(m) == ~m.unique /\ m.shared = {}

\* std::shared_lock on m can be taken; an implementation may hold readers
\* back while a writer waits
CanLockShared(m) == ~m.unique /\ ~(prefer_writer /\ m.waiting)

\* main is inside the constructor of a unique_lock: it takes the mutex, or
\* blocks and is from then on a waiting writer
MainLock(m, here, there) ==
    /\ main_pc = here
    /\ \/ /\ CanLockUnique(m)
          /\ main_pc' = there
       \/ /\ ~CanLockUnique(m)
          /\ ~m.waiting
          /\ main_pc' = here

MainLocked(m) ==
    IF CanLockUnique(m) THEN [m EXCEPT !.unique = TRUE, !.waiting = FALSE]
    ELSE [m EXCEPT !.waiting = TRUE]

\* RunMwCASBench, line 353: unique_lock(mutex_1st)
RunMwCASBench_Lock1st ==
    /\ kind = "Bench"
    /\ MainLock(mutex_1st, "lock_1st", "spawn")
    /\ mutex_1st' = MainLocked(mutex_1st)
    /\ UNCHANGED <<kind, dequeVars, mtx_, splitVars, genVars, queueVars,
                   mem, pc, ops, mwVars,
                   workerVars,
                   thread_num_, exec_num_, prefer_writer, mutex_2nd, w_pc,
                   w_exec, promise, results, latencyVars>>

\* RunMwCASBench, lines 358-368: create a promise and detach a thread that
\* runs RunWorker
RunMwCASBench_Spawn ==
    /\ kind = "Bench"
    /\ main_pc = "spawn"
    /\ \E i \in BenchThreads :
        /\ w_pc[i] = "unborn"
        /\ \A j \in 1..(i - 1) : w_pc[j] # "unborn"
        /\ w_pc' = [w_pc EXCEPT ![i] = "lock_create"]
        /\ main_pc' = IF i = thread_num_ THEN "lock_2nd" ELSE "spawn"
    /\ UNCHANGED <<kind, dequeVars, mtx_, splitVars, genVars, queueVars,
                   mem, pc, ops, mwVars,
                   workerVars,
                   thread_num_, exec_num_, prefer_writer, mutex_1st, mutex_2nd,
                   w_exec, promise, results, latencyVars>>

\* RunMwCASBench, line 372: unique_lock(mutex_2nd), "wait for all workers to
\* be created"
RunMwCASBench_Lock2nd ==
    /\ kind = "Bench"
    /\ MainLock(mutex_2nd, "lock_2nd", "release_start")
    /\ mutex_2nd' = MainLocked(mutex_2nd)
    /\ UNCHANGED <<kind, dequeVars, mtx_, splitVars, genVars, queueVars,
                   mem, pc, ops, mwVars,
                   workerVars,
                   thread_num_, exec_num_, prefer_writer, mutex_1st, w_pc,
                   w_exec, promise, results, latencyVars>>

\* RunMwCASBench, lines 374-375: InitializeTargetFields, then both locks go
\* out of scope
RunMwCASBench_ReleaseStart ==
    /\ kind = "Bench"
    /\ main_pc = "release_start"
    /\ mutex_1st' = [mutex_1st EXCEPT !.unique = FALSE]
    /\ mutex_2nd' = [mutex_2nd EXCEPT !.unique = FALSE]
    /\ main_pc' = "close_2nd"
    /\ UNCHANGED <<kind, dequeVars, mtx_, splitVars, genVars, queueVars,
                   mem, pc, ops, mwVars,
                   workerVars,
                   thread_num_, exec_num_, prefer_writer, w_pc, w_exec,
                   promise, results, latencyVars>>

\* RunMwCASBench, line 387: unique_lock(mutex_2nd)
RunMwCASBench_Close2nd ==
    /\ kind = "Bench"
    /\ MainLock(mutex_2nd, "close_2nd", "close_1st")
    /\ mutex_2nd' = MainLocked(mutex_2nd)
    /\ UNCHANGED <<kind, dequeVars, mtx_, splitVars, genVars, queueVars,
                   mem, pc, ops, mwVars,
                   workerVars,
                   thread_num_, exec_num_, prefer_writer, mutex_1st, w_pc,
                   w_exec, promise, results, latencyVars>>

\* RunMwCASBench, line 390: unique_lock(mutex_1st), "wait for all workers to
\* finish measuring"
RunMwCASBench_Close1st ==
    /\ kind = "Bench"
    /\ MainLock(mutex_1st, "close_1st", "release_finish")
    /\ mutex_1st' = MainLocked(mutex_1st)
    /\ UNCHANGED <<kind, dequeVars, mtx_, splitVars, genVars, queueVars,
                   mem, pc, ops, mwVars,
                   workerVars,
                   thread_num_, exec_num_, prefer_writer, mutex_2nd, w_pc,
                   w_exec, promise, results, latencyVars>>

\* RunMwCASBench, line 391: both locks go out of scope
RunMwCASBench_ReleaseFinish ==
    /\ kind = "Bench"
    /\ main_pc = "release_finish"
    /\ mutex_1st' = [mutex_1st EXCEPT !.unique = FALSE]
    /\ mutex_2nd' = [mutex_2nd EXCEPT !.unique = FALSE]
    /\ main_pc' = "get"
    /\ UNCHANGED <<kind, dequeVars, mtx_, splitVars, genVars, queueVars,
                   mem, pc, ops, mwVars,
                   workerVars,
                   thread_num_, exec_num_, prefer_writer, w_pc, w_exec,
                   promise, results, latencyVars>>

\* a future.get() that does not wait for the promise
RunMwCASBench_GetUnset ==
    /\ kind = "Bench"
    /\ main_pc = "get"
    /\ results < thread_num_
    /\ results' = results + 1
    /\ UNCHANGED <<kind, dequeVars, mtx_, splitVars, genVars, queueVars,
                   mem, pc, ops, mwVars,
                   workerVars,
                   thread_num_, exec_num_, prefer_writer, mutex_1st, mutex_2nd,
                   main_pc, w_pc, w_exec, promise, latencyVars>>

\* RunMwCASBench, lines 400-402: future.get() blocks until the worker has set
\* its promise
RunMwCASBench_Get ==
    /\ kind = "Bench"
    /\ main_pc = "get"
    /\ results < thread_num_
    /\ (results + 1) \in promise
    /\ results' = results + 1
    /\ UNCHANGED <<kind, dequeVars, mtx_, splitVars, genVars, queueVars,
                   mem, pc, ops, mwVars,
                   workerVars,
                   thread_num_, exec_num_, prefer_writer, mutex_1st, mutex_2nd,
                   main_pc, w_pc, w_exec, promise, latencyVars>>

\* RunMwCASBench, lines 404-408: LogThroughput or LogLatency
RunMwCASBench_Log ==
    /\ kind = "Bench"
    /\ main_pc = "get"
    /\ results = thread_num_
    /\ main_pc' = "delete"
    /\ UNCHANGED <<kind, dequeVars, mtx_, splitVars, genVars, queueVars,
                   mem, pc, ops, mwVars,
                   workerVars,
                   thread_num_, exec_num_, prefer_writer, mutex_1st, mutex_2nd,
                   w_pc, w_exec, promise, results, latencyVars>>

\* RunMwCASBench, lines 410-413: delete the workers and return
RunMwCASBench_Return ==
    /\ kind = "Bench"
    /\ main_pc = "delete"
    /\ main_pc' = "done"
    /\ UNCHANGED <<kind, dequeVars, mtx_, splitVars, genVars, queueVars,
                   mem, pc, ops, mwVars,
                   workerVars,
                   thread_num_, exec_num_, prefer_writer, mutex_1st, mutex_2nd,
                   w_pc, w_exec, promise, results, latencyVars>>

RunMwCASBench ==
    \/ RunMwCASBench_Lock1st
    \/ RunMwCASBench_Spawn
    \/ RunMwCASBench_Lock2nd
    \/ RunMwCASBench_ReleaseStart
    \/ RunMwCASBench_Close2nd
    \/ RunMwCASBench_Close1st
    \/ RunMwCASBench_ReleaseFinish
    \/ RunMwCASBench_Get
    \/ RunMwCASBench_Log
    \/ RunMwCASBench_Return

\* RunWorker, line 263: shared_lock(mutex_2nd)
RunWorker_LockCreate(w) ==
    /\ kind = "Bench"
    /\ w_pc[w] = "lock_create"
    /\ CanLockShared(mutex_2nd)
    /\ mutex_2nd' = [mutex_2nd EXCEPT !.shared = @ \cup {w}]
    /\ w_pc' = [w_pc EXCEPT ![w] = "create"]
    /\ UNCHANGED <<kind, dequeVars, mtx_, splitVars, genVars, queueVars,
                   mem, pc, ops, mwVars,
                   workerVars,
                   thread_num_, exec_num_, prefer_writer, mutex_1st, main_pc,
                   w_exec, promise, results, latencyVars>>

\* RunWorker, lines 264-265: CreateWorker, then the lock goes out of scope
RunWorker_Create(w) ==
    /\ kind = "Bench"
    /\ w_pc[w] = "create"
    /\ mutex_2nd' = [mutex_2nd EXCEPT !.shared = @ \ {w}]
    /\ w_pc' = [w_pc EXCEPT ![w] = "lock_measure"]
    /\ UNCHANGED <<kind, dequeVars, mtx_, splitVars, genVars, queueVars,
                   mem, pc, ops, mwVars,
                   workerVars,
                   thread_num_, exec_num_, prefer_writer, mutex_1st, main_pc,
                   w_exec, promise, results, latencyVars>>

\* a worker that starts to measure without waiting for mutex_1st
RunWorker_NoLockMeasure(w) ==
    /\ kind = "Bench"
    /\ w_pc[w] = "lock_measure"
    /\ mutex_1st' = [mutex_1st EXCEPT !.shared = @ \cup {w}]
    /\ w_pc' = [w_pc EXCEPT ![w] = "measure"]
    /\ UNCHANGED <<kind, dequeVars, mtx_, splitVars, genVars, queueVars,
                   mem, pc, ops, mwVars,
                   workerVars,
                   thread_num_, exec_num_, prefer_writer, mutex_2nd, main_pc,
                   w_exec, promise, results, latencyVars>>

\* RunWorker, line 268: shared_lock(mutex_1st), "wait for benchmark to be
\* ready"
RunWorker_LockMeasure(w) ==
    /\ kind = "Bench"
    /\ w_pc[w] = "lock_measure"
    /\ CanLockShared(mutex_1st)
    /\ mutex_1st' = [mutex_1st EXCEPT !.shared = @ \cup {w}]
    /\ w_pc' = [w_pc EXCEPT ![w] = "measure"]
    /\ UNCHANGED <<kind, dequeVars, mtx_, splitVars, genVars, queueVars,
                   mem, pc, ops, mwVars,
                   workerVars,
                   thread_num_, exec_num_, prefer_writer, mutex_2nd, main_pc,
                   w_exec, promise, results, latencyVars>>

\* RunWorker, lines 269-273: one operation of MeasureThroughput or
\* MeasureLatency
RunWorker_Measure(w) ==
    /\ kind = "Bench"
    /\ w_pc[w] = "measure"
    /\ w_exec[w] < ExecNum(w)
    /\ w_exec' = [w_exec EXCEPT ![w] = @ + 1]
    /\ UNCHANGED <<kind, dequeVars, mtx_, splitVars, genVars, queueVars,
                   mem, pc, ops, mwVars,
                   workerVars,
                   thread_num_, exec_num_, prefer_writer, mutex_1st, mutex_2nd,
                   main_pc, w_pc, promise, results, latencyVars>>

\* a worker that keeps mutex_1st when its measurement has returned
RunWorker_KeepMeasure(w) ==
    /\ kind = "Bench"
    /\ w_pc[w] = "measure"
    /\ w_exec[w] = ExecNum(w)
    /\ w_pc' = [w_pc EXCEPT ![w] = "lock_sort"]
    /\ UNCHANGED <<kind, dequeVars, mtx_, splitVars, genVars, queueVars,
                   mem, pc, ops, mwVars,
                   workerVars,
                   thread_num_, exec_num_, prefer_writer, mutex_1st, mutex_2nd,
                   main_pc, w_exec, promise, results, latencyVars>>

\* RunWorker, line 274: the measurement has returned and the lock goes out of
\* scope
RunWorker_EndMeasure(w) ==
    /\ kind = "Bench"
    /\ w_pc[w] = "measure"
    /\ w_exec[w] = ExecNum(w)
    /\ mutex_1st' = [mutex_1st EXCEPT !.shared = @ \ {w}]
    /\ w_pc' = [w_pc EXCEPT ![w] = "lock_sort"]
    /\ UNCHANGED <<kind, dequeVars, mtx_, splitVars, genVars, queueVars,
                   mem, pc, ops, mwVars,
                   workerVars,
                   thread_num_, exec_num_, prefer_writer, mutex_2nd, main_pc,
                   w_exec, promise, results, latencyVars>>

\* RunWorker, line 277: shared_lock(mutex_2nd), "wait for all workers to
\* finish"
RunWorker_LockSort(w) ==
    /\ kind = "Bench"
    /\ w_pc[w] = "lock_sort"
    /\ CanLockShared(mutex_2nd)
    /\ mutex_2nd' = [mutex_2nd EXCEPT !.shared = @ \cup {w}]
    /\ w_pc' = [w_pc EXCEPT ![w] = "sort"]
    /\ UNCHANGED <<kind, dequeVars, mtx_, splitVars, genVars, queueVars,
                   mem, pc, ops, mwVars,
                   workerVars,
                   thread_num_, exec_num_, prefer_writer, mutex_1st, main_pc,
                   w_exec, promise, results, latencyVars>>

\* RunWorker, lines 278-279: SortExecutionTimes, then the lock goes out of
\* scope
RunWorker_Sort(w) ==
    /\ kind = "Bench"
    /\ w_pc[w] = "sort"
    /\ mutex_2nd' = [mutex_2nd EXCEPT !.shared = @ \ {w}]
    /\ w_pc' = [w_pc EXCEPT ![w] = "set_value"]
    /\ UNCHANGED <<kind, dequeVars, mtx_, splitVars, genVars, queueVars,
                   mem, pc, ops, mwVars,
                   workerVars,
                   thread_num_, exec_num_, prefer_writer, mutex_1st, main_pc,
                   w_exec, promise, results, latencyVars>>

\* RunWorker, line 281: p.set_value(worker)
RunWorker_SetValue(w) ==
    /\ kind = "Bench"
    /\ w_pc[w] = "set_value"
    /\ promise' = promise \cup {w}
    /\ w_pc' = [w_pc EXCEPT ![w] = "exit"]
    /\ UNCHANGED <<kind, dequeVars, mtx_, splitVars, genVars, queueVars,
                   mem, pc, ops, mwVars,
                   workerVars,
                   thread_num_, exec_num_, prefer_writer, mutex_1st, mutex_2nd,
                   main_pc, w_exec, results, latencyVars>>

RunWorker(w) ==
    \/ RunWorker_LockCreate(w)
    \/ RunWorker_Create(w)
    \/ RunWorker_LockMeasure(w)
    \/ RunWorker_Measure(w)
    \/ RunWorker_EndMeasure(w)
    \/ RunWorker_LockSort(w)
    \/ RunWorker_Sort(w)
    \/ RunWorker_SetValue(w)

\* RunMwCASBench is called on a freshly constructed MwCASBench
InitBench ==
    /\ QueueInit("Bench")
    /\ DequeIdle
    /\ thread_num_ \in 1..MaxBenchThreads
    /\ exec_num_ \in thread_num_..MaxBenchExec
    /\ prefer_writer \in BOOLEAN
    /\ mutex_1st = Unlocked
    /\ mutex_2nd = Unlocked
    /\ main_pc = "lock_1st"
    /\ w_pc = [w \in WorkerIds |-> "unborn"]
    /\ w_exec = [w \in WorkerIds |-> 0]
    /\ promise = {}
    /\ results = 0
    /\ latencies = [w \in WorkerIds |-> <<>>]
    /\ indexes = [w \in WorkerIds |-> 0]
    /\ count = 0
    /\ lat = [lat_0 |-> Unassigned, lat_90 |-> Unassigned, lat_95 |-> Unassigned,
              lat_99 |-> Unassigned, lat_100 |-> Unassigned]
    /\ ll_pc = "idle"
    /\ reported = <<>>

NextBench ==
    \/ RunMwCASBench
    \/ \E w \in WorkerIds : RunWorker(w)

SpecBench == InitBench /\ [][NextBench]_vars

\* main and every detached thread are OS threads that keep running
SpecBenchFair ==
    /\ SpecBench
    /\ WF_vars(RunMwCASBench)
    /\ \A w \in WorkerIds : WF_vars(RunWorker(w))


\* worker w has completed the construction of its Worker object
Constructed(w) == w_pc[w] \notin {"unborn", "lock_create", "create"}

\* worker w has passed the shared_lock of line 277
PastGateB(w) == w_pc[w] \in {"sort", "set_value", "exit"}

\* main has released the locks of lines 387-390
GateBReleased == main_pc \in {"get", "delete", "done"}

\* main has written the aggregated result
Aggregated == main_pc \in {"delete", "done"}

\* C14: gate A: no worker executes a step of MeasureThroughput/MeasureLatency
\* before every worker thread of the run has constructed its Worker object
GateA ==
    (\E w \in BenchThreads : w_exec[w] > 0)
        => (\A u \in BenchThreads : Constructed(u))

\* C15: gate B: a worker that has finished its measurement does not pass
\* gate B before main has released it, and main releases gate B only when
\* aggregation is complete
GateB ==
    /\ \A w \in BenchThreads : PastGateB(w) => GateBReleased
    /\ GateBReleased => Aggregated

LatencyRuns == {<<1, 2>>, <<2, 4>>, <<2, 10>>, <<6, 10>>, <<2, 20>>, <<2, 30>>}

LatencyValues == 1..MaxLatency

\* what an uninitialized size_t or a read outside a vector can yield
AnyValue == 0..(MaxLatency + 1)

\* the ascending arrays of n latencies (worker.hpp SortExecutionTimes)
SortedArrays(n) ==
    {[i \in 1..n |-> 1 + Cardinality({j \in DOMAIN c : c[j] < i})] :
        c \in [1..(MaxLatency - 1) -> 0..n]}

\* worker.hpp GetLatency: exec_times_nano_[index], unchecked
GetLatency(w, index) ==
    IF index >= 0 /\ index < Len(latencies[w]) THEN {latencies[w][index + 1]}
    ELSE AnyValue

\* what the first n workers' GetLatency(ix[w]) can return, as sequences
RECURSIVE Reads(_, _)
Reads(n, ix) ==
    IF n = 0 THEN {<<>>}
    ELSE {Append(p, v) : p \in Reads(n - 1, ix), v \in GetLatency(n, ix[n])}

\* static_cast<size_t>(exec_num_ * p / 100.0)
Percentile(p) == (exec_num_ * p) \div 100

\* line 160: count >= exec_num_ * 0.90
InLoop == count * 100 >= exec_num_ * 90

Min(S) == CHOOSE v \in S : \A u \in S : v <= u

\* lines 146-157: the minimum of the workers' first latencies, and the index
\* of every worker's last latency
LogLatency_Begin ==
    /\ kind = "Latency"
    /\ ll_pc = "begin"
    /\ indexes' = [w \in WorkerIds |->
                     IF w \in BenchThreads THEN ExecNum(w) - 1 ELSE 0]
    /\ \E r \in Reads(thread_num_, [w \in WorkerIds |-> 0]) :
        lat' = [lat EXCEPT !.lat_0 = Min({r[w] : w \in BenchThreads})]
    /\ count' = exec_num_
    /\ ll_pc' = "loop"
    /\ UNCHANGED <<kind, dequeVars, mtx_, splitVars, genVars, queueVars,
                   mem, pc, ops, mwVars,
                   workerVars,
                   thread_num_, exec_num_, benchVars, latencies, reported>>

\* lines 162-169: the first thread whose current latency is the largest
\* (thread 0 when none exceeds 0)
TargetThread(r) ==
    IF \A w \in BenchThreads : r[w] = 0 THEN 1
    ELSE Min({w \in BenchThreads : \A u \in BenchThreads : r[u] <= r[w]})

\* lines 172-180: the variable that is assigned at this count
Store(l, max_exec_time) ==
    IF count = exec_num_ THEN [l EXCEPT !.lat_100 = max_exec_time]
    ELSE IF count = Percentile(99) THEN [l EXCEPT !.lat_99 = max_exec_time]
    ELSE IF count = Percentile(95) THEN [l EXCEPT !.lat_95 = max_exec_time]
    ELSE IF count = Percentile(90) THEN [l EXCEPT !.lat_90 = max_exec_time]
    ELSE l

\* lines 160-183: one iteration of the loop
LogLatency_Loop ==
    /\ kind = "Latency"
    /\ ll_pc = "loop"
    /\ InLoop
    /\ \E r \in Reads(thread_num_, indexes) :
        /\ lat' = Store(lat, r[TargetThread(r)])
        /\ indexes' = [indexes EXCEPT ![TargetThread(r)] = @ - 1]
    /\ count' = count - 1
    /\ UNCHANGED <<kind, dequeVars, mtx_, splitVars, genVars, queueVars,
                   mem, pc, ops, mwVars,
                   workerVars,
                   thread_num_, exec_num_, benchVars, latencies, ll_pc,
                   reported>>

\* the values a read of the variable v can yield
Value(v) == IF v = Unassigned THEN AnyValue ELSE {v}

\* lines 185-194: write MIN, 90%, 95%, 99% and MAX
LogLatency_Report ==
    /\ kind = "Latency"
    /\ ll_pc = "loop"
    /\ ~InLoop
    /\ \E v90 \in Value(lat.lat_90), v95 \in Value(lat.lat_95),
          v99 \in Value(lat.lat_99), v100 \in Value(lat.lat_100) :
        reported' = <<lat.lat_0, v90, v95, v99, v100>>
    /\ ll_pc' = "done"
    /\ UNCHANGED <<kind, dequeVars, mtx_, splitVars, genVars, queueVars,
                   mem, pc, ops, mwVars,
                   workerVars,
                   thread_num_, exec_num_, benchVars, latencies, indexes,
                   count, lat>>

\* the sorted latencies the first n workers can hand to LogLatency
RECURSIVE Results(_)
Results(n) ==
    IF n = 0 THEN {<<>>}
    ELSE {Append(p, a) : p \in Results(n - 1),
                         a \in SortedArrays(IF n <= thread_num_ THEN ExecNum(n)
                                            ELSE 0)}

\* LogLatency is called with the results of a run in latency mode
InitLatency ==
    /\ QueueInit("Latency")
    /\ DequeIdle
    /\ \E run \in LatencyRuns : thread_num_ = run[1] /\ exec_num_ = run[2]
    /\ prefer_writer = FALSE
    /\ mutex_1st = Unlocked
    /\ mutex_2nd = Unlocked
    /\ main_pc = "get"
    /\ w_pc = [w \in WorkerIds |-> IF w <= thread_num_ THEN "exit" ELSE "unborn"]
    /\ w_exec = [w \in WorkerIds |-> IF w <= thread_num_ THEN ExecNum(w) ELSE 0]
    /\ promise = BenchThreads
    /\ results = thread_num_
    /\ latencies \in Results(MaxThreadNum)
    /\ indexes = [w \in WorkerIds |-> 0]
    /\ count = 0
    /\ lat = [lat_0 |-> Unassigned, lat_90 |-> Unassigned, lat_95 |-> Unassigned,
              lat_99 |-> Unassigned, lat_100 |-> Unassigned]
    /\ ll_pc = "begin"
    /\ reported = <<>>

NextLatency ==
    \/ LogLatency_Begin
    \/ LogLatency_Loop
    \/ LogLatency_Report

SpecLatency == InitLatency /\ [][NextLatency]_vars

\* the number of recorded latencies that are at most v
CountUpTo(v) ==
    SumOver(BenchThreads, [w \in BenchThreads |->
        Cardinality({i \in 1..Len(latencies[w]) : latencies[w][i] <= v})])

\* the element at 1-based rank r of all workers' latencies in ascending order
Ranked(r) ==
    CHOOSE v \in LatencyValues : CountUpTo(v) >= r /\ CountUpTo(v - 1) < r

\* C17: the values LogLatency reports as MIN, 90%, 95%, 99% and MAX are the
\* elements at ranks 1, floor(0.90*N), floor(0.95*N), floor(0.99*N) and N of
\* all workers' latencies sorted in ascending order
PercentileMerge ==
    ll_pc = "done" =>
        reported = <<Ranked(1), Ranked(Percentile(90)), Ranked(Percentile(95)),
                     Ranked(Percentile(99)), Ranked(exec_num_)>>


\* C18: every operation a worker passes to PerformMwCAS has, in positions
\* [0, target_num), target_num_ addresses of shared target fields that are
\* pairwise distinct and in ascending order
SortedTargets ==
    \A t \in Threads :
        pc[t] \notin {"new", "finished", "crashed"} =>
            /\ Len(Op(t)) = target_num_
            /\ \A k \in 1..target_num_ : Op(t)[k] \in Fields
            /\ \A k, m \in 1..target_num_ : k < m => Op(t)[k] < Op(t)[m]


\* the workers that are inside PerformMwCAS with an operation on field f
InFlightOn(f) ==
    {t \in Threads : /\ pc[t] \notin {"new", "finished", "crashed"}
                     /\ Op(t)[1] = f}

\* C19: with target_num = 1 Worker<MwCAS> and Worker<SingleCAS> show the same
\* histories of field values: a step changes the value of at most one field,
\* by one, and the field is the target of an operation in flight; a field's
\* value is the number of executed operations on it plus at most the
\* operations in flight on it; and when all workers have finished it is the
\* number of executed operations on it
SingleTargetEquivalence ==
    /\ [][target_num_ = 1 =>
            /\ \A f \in Fields :
                  /\ Logical(f)' \in {Logical(f), Logical(f) + 1}
                  /\ Logical(f)' # Logical(f) => InFlightOn(f) # {}
            /\ \A f, g \in Fields :
                  (Logical(f)' # Logical(f) /\ Logical(g)' # Logical(g))
                      => f = g]_vars
    /\ [](target_num_ = 1 =>
            /\ \A f \in Fields :
                  /\ Logical(f) >= Count(f)
                  /\ Logical(f) <= Count(f) + Cardinality(InFlightOn(f))
            /\ AllFinished => \A f \in Fields : mem[f] = Count(f))

\* two Worker<MwCAS> with one target each have incremented the same field
SingleTargetEquivalenceWitness ==
    /\ kind = "WorkerMwCAS"
    /\ target_num_ = 1
    /\ AllFinished
    /\ \E f \in Fields : mem[f] = NumThreads * operation_counts


\* the elements of the container QueueCAS: the nodes from front_.next up to
\* &back_, following at most k links
RECURSIVE ElementsFrom(_, _)
ElementsFrom(current_node, k) ==
    IF k = 0 \/ current_node \notin NodeIds THEN 0
    ELSE 1 + ElementsFrom(mem[current_node], k - 1)

\* the calls of pop made so far: every call is a push or a pop
PopCalls == SumOver(Threads, ops) - npush

\* C20: in the sentinel-node QueueCAS a call of pop removes the front element
\* only, one element when the queue is not empty and none when it is empty:
\* whenever no call is in flight the queue holds at least as many elements as
\* pushes were made minus the calls of pop
PopFrontOnly ==
    (kind = "ContainerCAS" /\ Quiescent) =>
        ElementsFrom(mem[FrontAddr], MaxNode) >= npush - PopCalls


\* the threads that are about to CAS the status of descriptor d
Deciding(d) ==
    {t \in Threads : /\ hstack[t] # <<>>
                     /\ Top(t).d = d
                     /\ Top(t).st \in {"decide", "fail"}}

\* C21: the status of a descriptor changes at most once, from Undecided to
\* Succeeded or to Failed; of the threads that race to decide it one status
\* CAS succeeds, and a terminal status stays until nobody refers to the
\* descriptor and it returns to the pool
StatusOnce ==
    [][\A d \in DescIds : desc'[d].status # desc[d].status =>
          \/ /\ desc[d].status = "Undecided"
             /\ desc'[d].status \in {"Succeeded", "Failed"}
             /\ \E t \in Deciding(d) : hstack'[t] # hstack[t]
          \/ /\ desc[d].status = "None"
             /\ desc'[d].status = "Undecided"
          \/ /\ desc[d].status \in {"Succeeded", "Failed"}
             /\ desc'[d] = NoDesc
             /\ d \notin Referenced(mem', own', hstack', word')]_vars

\* a descriptor is decided and another thread is still about to CAS its
\* status
StatusOnceWitness ==
    \E d \in DescIds :
        /\ desc[d].status \in {"Succeeded", "Failed"}
        /\ Deciding(d) # {}


(***************************************************************************)
(* Helping.  Worker 1 keeps taking steps; the other workers may stop at    *)
(* any point of an MwCAS, for ever, also with descriptors installed.       *)
(***************************************************************************)
\* the steps of worker t
WorkerStep(t) ==
    \/ W_Construct(t)
    \/ WM_ReadField(t)
    \/ MwStep(t)
    \/ WM_Return(t)
    \/ WS_Load(t)
    \/ WS_CAS(t)

SpecWorkerFair == SpecWorker /\ WF_vars(WorkerStep(1))

\* the descriptors thread t is driving, the helped ones above its own
Helped(t) == [k \in DOMAIN hstack[t] |-> hstack[t][k].d]

\* no thread helps a descriptor it is already driving
NoHelpCycle ==
    \A t \in Threads : \A j, k \in DOMAIN hstack[t] :
        j # k => Helped(t)[j] # Helped(t)[k]

\* the entries of every descriptor are in ascending order of address (a
\* field that occurs twice in an operation, C18, gives equal neighbours)
AscendingEntries ==
    \A d \in DescIds : \A j, k \in DOMAIN desc[d].entries :
        j < k => desc[d].entries[j].addr <= desc[d].entries[k].addr

\* a descriptor is left (finalized) only when it is decided, and MwCAS()
\* returns to line 443 with its own descriptor decided
ReturnsDecided ==
    \A t \in Threads :
        /\ \A k \in DOMAIN hstack[t] :
              hstack[t][k].st = "fin" =>
                  desc[hstack[t][k].d].status \in {"Succeeded", "Failed"}
        /\ (pc[t] = "w_mwcas" /\ hstack[t] = <<>> /\ Alive) =>
              desc[own[t]].status \in {"Succeeded", "Failed"}

\* C22: helping terminates without cycles.  The entries of every descriptor
\* are in ascending order of address; no thread ever helps a
\* descriptor it is already driving; a descriptor is left only when it is
\* decided, so that MwCAS() returns the decided status; and every MwCAS or
\* protected read of a worker that keeps taking steps returns, also when it
\* finds foreign descriptors whose owners have stopped for ever.
HelpingTerminates ==
    /\ [](AscendingEntries /\ NoHelpCycle /\ ReturnsDecided)
    /\ (hstack[1] # <<>>) ~> (hstack[1] = <<>>)

\* worker 1 is helping a foreign descriptor inside its own MwCAS
HelpingTerminatesWitness ==
    /\ Len(hstack[1]) = 2
    /\ hstack[1][1].d = own[1]
    /\ hstack[1][2].d = own[2]
    /\ desc[own[2]].status = "Undecided"


\* the step in which pop reads the element it returns (new_front->elem)
ReadsElem(t) == pc[t] = "pop_elem" /\ pc'[t] = "idle"

\* C23: pop reads the element it returns before the CAS that advances
\* front_: in the step that reads new_front->elem the node the call loaded
\* as front is still the front node and has not been handed to the GC.
ElemBeforeCAS ==
    [][\A t \in Threads :
          ReadsElem(t) => (front_ = front[t] /\ life[front[t]] = Live)]_vars


\* C24: QueueMwCAS::push issues its MwCAS with the two entries, (back_, t, n)
\* and (t.next, null, n), in ascending order of target address.
PushEntriesSorted ==
    \A t \in Threads :
        (kind = "QueueMwCAS" /\ pc[t] = "push_mwcas" /\ own[t] # 0) =>
            LET es == desc[own[t]].entries
            IN  /\ Len(es) = 2
                /\ {es[1].addr, es[2].addr} = {BackAddr, back[t]}
                /\ es[1].addr < es[2].addr


\* the nodes on the chain that starts at word a, at most k of them
RECURSIVE LinkedFrom(_, _)
LinkedFrom(a, k) ==
    IF k = 0 \/ mem[a] \notin NodeIds THEN {}
    ELSE {mem[a]} \cup LinkedFrom(mem[a], k - 1)

\* the nodes reachable from front_
Linked == LinkedFrom(FrontAddr, MaxNode)

\* C25: node lifecycle.  No node reachable from front_ has been handed to
\* the garbage collector, and when no call is in flight every node that was
\* allocated and is no longer reachable from front_ has been handed to it:
\* a pop that unlinks a node retires it, on every path of pop.
NodeLifecycle ==
    /\ \A n \in Linked : life[n] = Live
    /\ Quiescent => \A n \in NodeIds : life[n] = Live => n \in Linked


\* worker w has completed the loop of MeasureThroughput/MeasureLatency
Measured(w) ==
    \/ w_pc[w] \in {"lock_sort", "sort", "set_value", "exit"}
    \/ w_pc[w] = "measure" /\ w_exec[w] = ExecNum(w)

\* C26: finish barrier: no worker starts SortExecutionTimes or sets its
\* promise before every worker of the run has completed its measurement loop
FinishBarrier ==
    (\E w \in BenchThreads : PastGateB(w) \/ w \in promise)
        => (\A u \in BenchThreads : Measured(u))


\* worker w is inside the constructor of its Worker object, which draws the
\* targets of its operations from the Zipf generator (worker.hpp 290-306)
Generating(w) == w_pc[w] = "create"

\* worker w is inside MeasureThroughput/MeasureLatency
Measuring(w) == w_pc[w] = "measure"

\* C27: a worker's operation list is generated entirely before its timed
\* section: a worker that is generating has executed no operation, and no
\* worker is generating while any worker is inside its timed section
GenerateBeforeTimed ==
    \A w \in BenchThreads :
        Generating(w) =>
            /\ w_exec[w] = 0
            /\ \A u \in BenchThreads : ~Measuring(u)


(***************************************************************************)
(* The driver together with the measurement it starts: a run of the        *)
(* driver's barrier, or a run of the workers' operations on the fields.    *)
(***************************************************************************)
InitMeasure == InitBench \/ InitWorker

NextMeasure == NextBench \/ NextWorker

SpecMeasure == InitMeasure /\ [][NextMeasure]_vars

\* main is inside the scope in which line 374 calls InitializeTargetFields
Initializing == main_pc = "release_start"

\* the step changes field f by a compare-and-swap of thread t: the CAS of
\* Worker<SingleCAS>, or the CAS that installs or replaces a descriptor
CASWrite(t, f) ==
    \/ /\ kind = "WorkerSingleCAS"
       /\ pc[t] = "w_cas"
       /\ Addr(t) = f
       /\ mem[f] = old_val[t]
       /\ mem'[f] = old_val[t] + 1
    \/ /\ kind = "WorkerMwCAS"
       /\ hstack[t] # <<>>
       /\ TopEntry(t).addr = f
       /\ \/ /\ Top(t).st = "cas"
             /\ mem[f] = TopEntry(t).exp
             /\ mem'[f] = EncodeDescriptor(Top(t).d)
          \/ /\ Top(t).st = "fin"
             /\ mem[f] = EncodeDescriptor(Top(t).d)
             /\ mem'[f] \in {TopEntry(t).des, TopEntry(t).exp}

\* C28: plain stores to the target fields happen only during
\* initialization: while main is inside the scope of InitializeTargetFields
\* it holds mutex_1st and no worker is inside MeasureThroughput or
\* MeasureLatency, and every step of the measurement that changes a target
\* field is a CAS (of Worker<SingleCAS>, or of an MwCAS).
PlainStoresOnlyAtInit ==
    /\ [](Initializing =>
            /\ mutex_1st.unique
            /\ \A w \in WorkerIds : ~Measuring(w))
    /\ [][\A f \in Fields : mem'[f] # mem[f] =>
             \E t \in Threads : CASWrite(t, f)]_vars

\* main is about to initialize the fields while a worker waits for mutex_1st
PlainStoresOnlyAtInitWitness ==
    /\ Initializing
    /\ \E w \in BenchThreads : w_pc[w] = "lock_measure"


(***************************************************************************)
(* Progress of the container queues.  Thread 1 keeps taking steps; every   *)
(* other thread may stop at any point of its call, for ever.               *)
(***************************************************************************)
\* the steps of the running thread
RunningContainer == CQ_Step(1) \/ CM_Step(1)

SpecContainerFair == SpecContainer /\ WF_vars(RunningContainer)

\* thread t is inside push of the sentinel-node QueueCAS
PushingCAS(t) ==
    /\ kind = "ContainerCAS"
    /\ pc[t] \in {"cpush_link", "cpush_reload", "cpush_swing"}

\* C29: push of the sentinel-node QueueCAS is non-blocking: a push of a
\* thread that keeps taking steps returns, wherever the other threads are
\* suspended
PushNonBlocking == PushingCAS(1) ~> (pc[1] = "idle")


(***************************************************************************)
(* DequeMutex (container/deque_mutex.hpp) on the doubly linked Deque       *)
(* (include/container/deque.hpp): front_ and back_ are sentinel nodes,     *)
(* mem holds every next and node_prev every prev.  PushFront runs under    *)
(* front_mtx_ and PopBack under back_mtx_; the two mutexes do not exclude  *)
(* each other, so every load and store of a link is a step of its own.     *)
(***************************************************************************)

\* the variables no call of the deque touches
dequeFrame == <<kind, thread_num_, exec_num_, benchVars, latencyVars, mtx_,
                splitVars, genVars,
                workerVars, mwVars, epoch_counter, guard, back, next, front,
                new_front, before, phased, empty_ret, prev_node, tail_node,
                dummy_node, head_node>>

\* what a load of p->prev by t may return: the word, or anything when the
\* node was deleted
LoadPrev(t, p) ==
    IF DanglingNode(t, p) THEN 0..(MaxNode + 2) ELSE {node_prev[p]}

\* the call of thread t returns
Deque_Return(t) ==
    /\ pc' = [pc EXCEPT ![t] = "idle"]
    /\ old_node' = [old_node EXCEPT ![t] = kNullNode]
    /\ new_node' = [new_node EXCEPT ![t] = kNullNode]
    /\ x' = [x EXCEPT ![t] = 0]
    /\ stale' = [stale EXCEPT ![t] = {}]

\* PushFront, line 58: unique_lock(front_mtx_)
PushFront_Lock(t) ==
    /\ kind = "DequeMutex"
    /\ pc[t] = "idle"
    /\ ops[t] < MaxOps
    /\ Allocatable # {}
    /\ front_mtx_ = 0
    /\ front_mtx_' = t
    /\ x' = [x EXCEPT ![t] = npush + 1]
    /\ npush' = npush + 1
    /\ ops' = [ops EXCEPT ![t] = @ + 1]
    /\ pc' = [pc EXCEPT ![t] = "push_front_load"]
    /\ UNCHANGED <<dequeFrame, heapVars, new_node, old_node, stale, uaf, done,
                   ret, node_prev, back_mtx_>>

\* PushFront, lines 60-61: old_node = front_.next and
\* new Node{x, old_node, &front_}
PushFront_Load(t) ==
    /\ kind = "DequeMutex"
    /\ pc[t] = "push_front_load"
    /\ \E n \in Allocatable :
        /\ life' = [life EXCEPT ![n] = Live]
        /\ nalloc' = IF n > nalloc THEN n ELSE nalloc
        /\ elem' = [elem EXCEPT ![n] = x[t]]
        /\ mem' = [mem EXCEPT ![n] = front_]
        /\ node_prev' = [node_prev EXCEPT ![n] = FrontAddr]
        /\ new_node' = [new_node EXCEPT ![t] = n]
    /\ old_node' = [old_node EXCEPT ![t] = front_]
    /\ pc' = [pc EXCEPT ![t] = "push_front_next"]
    /\ UNCHANGED <<dequeFrame, x, ops, stale, uaf, npush, done, ret,
                   front_mtx_, back_mtx_>>

\* PushFront, line 62: front_.next = new_node
PushFront_StoreNext(t) ==
    /\ kind = "DequeMutex"
    /\ pc[t] = "push_front_next"
    /\ mem' = [mem EXCEPT ![FrontAddr] = new_node[t]]
    /\ pc' = [pc EXCEPT ![t] = "push_front_prev"]
    /\ UNCHANGED <<dequeFrame, elem, life, nalloc, x, new_node, old_node, ops,
                   stale, uaf, npush, done, ret, dequeVars>>

\* PushFront, lines 63-64: old_node->prev = new_node, then the lock goes out
\* of scope
PushFront_StorePrev(t) ==
    /\ kind = "DequeMutex"
    /\ pc[t] = "push_front_prev"
    /\ uaf' = (uaf \/ DanglingNode(t, old_node[t]))
    /\ node_prev' = [node_prev EXCEPT ![old_node[t]] = new_node[t]]
    /\ front_mtx_' = 0
    /\ done' = done \cup {x[t]}
    /\ Deque_Return(t)
    /\ UNCHANGED <<dequeFrame, heapVars, ops, npush, ret, back_mtx_>>

\* PopBack, lines 95-97: unique_lock(back_mtx_) and old_node = back_.prev
PopBack_Lock(t) ==
    /\ kind = "DequeMutex"
    /\ pc[t] = "idle"
    /\ ops[t] < MaxOps
    /\ back_mtx_ = 0
    /\ back_mtx_' = t
    /\ old_node' = [old_node EXCEPT ![t] = node_prev[BackAddr]]
    /\ ops' = [ops EXCEPT ![t] = @ + 1]
    /\ pc' = [pc EXCEPT ![t] = "pop_back_prev"]
    /\ UNCHANGED <<dequeFrame, heapVars, x, new_node, stale, uaf, npush, done,
                   ret, node_prev, front_mtx_>>

\* PopBack, lines 98-100: new_node = old_node->prev; when it is null,
\* old_node is front_ and the deque is empty
PopBack_LoadPrev(t) ==
    /\ kind = "DequeMutex"
    /\ pc[t] = "pop_back_prev"
    /\ uaf' = (uaf \/ DanglingNode(t, old_node[t]))
    /\ \E v \in LoadPrev(t, old_node[t]) :
        IF v = kNullNode
        THEN /\ back_mtx_' = 0
             /\ Deque_Return(t)
        ELSE /\ new_node' = [new_node EXCEPT ![t] = v]
             /\ pc' = [pc EXCEPT ![t] = "pop_back_next"]
             /\ UNCHANGED <<back_mtx_, old_node, x, stale>>
    /\ UNCHANGED <<dequeFrame, heapVars, ops, npush, done, ret, node_prev,
                   front_mtx_>>

\* PopBack, line 101: new_node->next = &back_
PopBack_StoreNext(t) ==
    /\ kind = "DequeMutex"
    /\ pc[t] = "pop_back_next"
    /\ uaf' = (uaf \/ DanglingNode(t, new_node[t]))
    /\ mem' = [mem EXCEPT ![new_node[t]] = BackAddr]
    /\ pc' = [pc EXCEPT ![t] = "pop_back_store"]
    /\ UNCHANGED <<dequeFrame, elem, life, nalloc, x, new_node, old_node, ops,
                   stale, npush, done, ret, dequeVars>>

\* PopBack, lines 102-104: back_.prev = new_node and delete old_node, then
\* the lock goes out of scope
PopBack_Delete(t) ==
    /\ kind = "DequeMutex"
    /\ pc[t] = "pop_back_store"
    /\ node_prev' = [node_prev EXCEPT ![BackAddr] = new_node[t]]
    /\ IF old_node[t] \in NodeIds
       THEN /\ life' = [life EXCEPT ![old_node[t]] = Free]
            /\ ret' = [ret EXCEPT ![t] = Append(@, elem[old_node[t]])]
       ELSE UNCHANGED <<life, ret>>
    /\ back_mtx_' = 0
    /\ pc' = [pc EXCEPT ![t] = "idle"]
    /\ old_node' = [old_node EXCEPT ![t] = kNullNode]
    /\ new_node' = [new_node EXCEPT ![t] = kNullNode]
    /\ stale' = [u \in Threads |->
                    IF u = t THEN {}
                    ELSE IF pc[u] # "idle" /\ old_node[t] \in Held(u)
                         THEN stale[u] \cup {old_node[t]}
                    ELSE stale[u]]
    /\ UNCHANGED <<dequeFrame, mem, elem, nalloc, x, ops, uaf, npush, done,
                   front_mtx_>>

\* Deque::Deque, line 47: the sentinels designate each other
InitDeque ==
    /\ kind = "DequeMutex"
    /\ mem = [a \in Addrs |-> IF a = FrontAddr THEN BackAddr ELSE kNullNode]
    /\ node_prev = [a \in Addrs |-> IF a = BackAddr THEN FrontAddr ELSE kNullNode]
    /\ front_mtx_ = 0
    /\ back_mtx_ = 0
    /\ mtx_ = Unlocked
    /\ sum_exec_num = 0
    /\ handed = <<>>
    /\ target_field_num_ = NumFields
    /\ targets = [t \in Threads |-> <<>>]
    /\ elem = [n \in NodeIds |-> 0]
    /\ life = [n \in NodeIds |-> Free]
    /\ nalloc = 0
    /\ epoch_counter = 0
    /\ guard = [t \in Threads |-> NoGuard]
    /\ pc = [t \in Threads |-> "idle"]
    /\ x = [t \in Threads |-> 0]
    /\ new_node = [t \in Threads |-> kNullNode]
    /\ back = [t \in Threads |-> kNullNode]
    /\ next = [t \in Threads |-> kNullNode]
    /\ front = [t \in Threads |-> kNullNode]
    /\ new_front = [t \in Threads |-> kNullNode]
    /\ desc = [d \in DescIds |-> NoDesc]
    /\ own = [t \in Threads |-> 0]
    /\ hstack = [t \in Threads |-> <<>>]
    /\ word = [t \in Threads |-> 0]
    /\ ops = [t \in Threads |-> 0]
    /\ stale = [t \in Threads |-> {}]
    /\ uaf = FALSE
    /\ npush = 0
    /\ done = {}
    /\ before = {}
    /\ ret = [t \in Threads |-> <<>>]
    /\ phased = TRUE
    /\ empty_ret = [t \in Threads |-> "none"]
    /\ target_num_ = 0
    /\ operations_ = [t \in Threads |-> <<>>]
    /\ idx = [t \in Threads |-> 0]
    /\ old_val = [t \in Threads |-> 0]
    /\ new_desc = [t \in Threads |-> <<>>]
    /\ wild = FALSE
    /\ old_node = [t \in Threads |-> kNullNode]
    /\ prev_node = [t \in Threads |-> kNullNode]
    /\ tail_node = [t \in Threads |-> kNullNode]
    /\ dummy_node = [t \in Threads |-> kNullNode]
    /\ head_node = [t \in Threads |-> kNullNode]
    /\ thread_num_ = 0
    /\ exec_num_ = 0
    /\ prefer_writer = FALSE
    /\ mutex_1st = Unlocked
    /\ mutex_2nd = Unlocked
    /\ main_pc = "idle"
    /\ w_pc = [w \in WorkerIds |-> "unborn"]
    /\ w_exec = [w \in WorkerIds |-> 0]
    /\ promise = {}
    /\ results = 0
    /\ latencies = [w \in WorkerIds |-> <<>>]
    /\ indexes = [w \in WorkerIds |-> 0]
    /\ count = 0
    /\ lat = [lat_0 |-> Unassigned, lat_90 |-> Unassigned, lat_95 |-> Unassigned,
              lat_99 |-> Unassigned, lat_100 |-> Unassigned]
    /\ ll_pc = "idle"
    /\ reported = <<>>

NextDeque ==
    \/ \E t \in Threads : PushFront_Lock(t)
    \/ \E t \in Threads : PushFront_Load(t)
    \/ \E t \in Threads : PushFront_StoreNext(t)
    \/ \E t \in Threads : PushFront_StorePrev(t)
    \/ \E t \in Threads : PopBack_Lock(t)
    \/ \E t \in Threads : PopBack_LoadPrev(t)
    \/ \E t \in Threads : PopBack_StoreNext(t)
    \/ \E t \in Threads : PopBack_Delete(t)

SpecDeque == InitDeque /\ [][NextDeque]_vars

\* the walk from front_ along next: does it reach &back_ within k links
\* over live nodes, each node's prev designating the node before it?
RECURSIVE WalkDeque(_, _)
WalkDeque(a, k) ==
    LET b == mem[a]
    IN  /\ b \in Addrs
        /\ node_prev[b] = a
        /\ \/ b = BackAddr
           \/ /\ b \in NodeIds
              /\ life[b] = Live
              /\ k > 0
              /\ WalkDeque(b, k - 1)

\* the elements on the chain behind node a, following at most k links
RECURSIVE DequeElems(_, _)
DequeElems(a, k) ==
    IF k = 0 \/ mem[a] \notin NodeIds THEN {}
    ELSE {elem[mem[a]]} \cup DequeElems(mem[a], k - 1)

\* the elements PopBack has removed
Popped == UNION {{ret[t][i] : i \in DOMAIN ret[t]} : t \in Threads}

\* C30: DequeMutex stays consistent under concurrent PushFront and PopBack:
\* no call accesses a deleted node, and when every call has returned the
\* deque is a well-formed doubly linked chain from front_ to back_ that
\* holds exactly the pushed elements that were not popped.
DequeConsistent ==
    /\ ~uaf
    /\ Quiescent =>
          /\ WalkDeque(FrontAddr, MaxNode)
          /\ DequeElems(FrontAddr, MaxNode) = done \ Popped


(***************************************************************************)
(* QueueMutex (src/queue/queue_mutex.hpp): the same linked list behind one *)
(* std::shared_mutex.  front_ and back_ start at one dummy node; delete    *)
(* hands the node back at once.                                            *)
(***************************************************************************)

\* the variables no call of QueueMutex touches
mutexFrame == <<kind, thread_num_, exec_num_, benchVars, latencyVars,
                dequeVars, splitVars, genVars, workerVars, containerVars, mwVars, epoch_counter,
                guard, back, next, front, new_front, stale, uaf, before>>

\* push, line 60: new Node{x, nullptr}
Mtx_PushBegin(t) ==
    /\ kind = "QueueMutex"
    /\ pc[t] = "idle"
    /\ ops[t] < MaxOps
    /\ \E n \in Allocatable :
        /\ life' = [life EXCEPT ![n] = Live]
        /\ nalloc' = IF n > nalloc THEN n ELSE nalloc
        /\ mem' = [mem EXCEPT ![n] = kNullNode]
        /\ elem' = [elem EXCEPT ![n] = npush + 1]
        /\ new_node' = [new_node EXCEPT ![t] = n]
    /\ x' = [x EXCEPT ![t] = npush + 1]
    /\ npush' = npush + 1
    /\ phased' = (phased /\ ~PopInvoked)
    /\ ops' = [ops EXCEPT ![t] = @ + 1]
    /\ pc' = [pc EXCEPT ![t] = "mtx_push_lock"]
    /\ UNCHANGED <<mutexFrame, mtx_, done, ret, empty_ret>>

\* push, line 62: unique_lock(mtx_)
Mtx_PushLock(t) ==
    /\ kind = "QueueMutex"
    /\ pc[t] = "mtx_push_lock"
    /\ ~mtx_.unique /\ mtx_.shared = {}
    /\ mtx_' = [mtx_ EXCEPT !.unique = TRUE]
    /\ pc' = [pc EXCEPT ![t] = "mtx_push"]
    /\ UNCHANGED <<mutexFrame, heapVars, x, new_node, ops, histVars>>

\* push, lines 64-67: back_->next = new_node; back_ = new_node; unlock
Mtx_Push(t) ==
    /\ kind = "QueueMutex"
    /\ pc[t] = "mtx_push"
    /\ mem' = [mem EXCEPT ![back_] = new_node[t], ![BackAddr] = new_node[t]]
    /\ mtx_' = [mtx_ EXCEPT !.unique = FALSE]
    /\ done' = done \cup {x[t]}
    /\ x' = [x EXCEPT ![t] = 0]
    /\ new_node' = [new_node EXCEPT ![t] = kNullNode]
    /\ pc' = [pc EXCEPT ![t] = "idle"]
    /\ UNCHANGED <<mutexFrame, elem, life, nalloc, ops, npush, ret, phased,
                   empty_ret>>

\* pop, line 71: unique_lock(mtx_)
Mtx_PopLock(t) ==
    /\ kind = "QueueMutex"
    /\ pc[t] = "idle"
    /\ ops[t] < MaxOps
    /\ ~mtx_.unique /\ mtx_.shared = {}
    /\ mtx_' = [mtx_ EXCEPT !.unique = TRUE]
    /\ ops' = [ops EXCEPT ![t] = @ + 1]
    /\ phased' = (phased /\ ~PushInFlight)
    /\ pc' = [pc EXCEPT ![t] = "mtx_pop"]
    /\ UNCHANGED <<mutexFrame, heapVars, x, new_node, npush, done, ret,
                   empty_ret>>

\* a pop that returns the element of the node it deletes
Mtx_PopOld(t) ==
    /\ kind = "QueueMutex"
    /\ pc[t] = "mtx_pop"
    /\ LET head_node_ == mem[front_]
       IN  IF head_node_ = kNullNode
           THEN /\ ret' = [ret EXCEPT ![t] = Append(@, None)]
                /\ UNCHANGED heapVars
           ELSE /\ ret' = [ret EXCEPT ![t] = Append(@, elem[front_])]
                /\ life' = [life EXCEPT ![front_] = Free]
                /\ elem' = [elem EXCEPT ![front_] = 0]
                /\ mem' = [mem EXCEPT ![front_] = kNullNode,
                                      ![FrontAddr] = head_node_]
                /\ UNCHANGED nalloc
    /\ mtx_' = [mtx_ EXCEPT !.unique = FALSE]
    /\ pc' = [pc EXCEPT ![t] = "idle"]
    /\ UNCHANGED <<mutexFrame, x, new_node, ops, npush, done, phased,
                   empty_ret>>

\* pop, lines 73-82: head_node = front_->next; nullopt when it is null;
\* else delete front_, front_ = head_node, return front_->elem; unlock
Mtx_Pop(t) ==
    /\ kind = "QueueMutex"
    /\ pc[t] = "mtx_pop"
    /\ LET head_node_ == mem[front_]
       IN  IF head_node_ = kNullNode
           THEN /\ ret' = [ret EXCEPT ![t] = Append(@, None)]
                /\ UNCHANGED heapVars
           ELSE /\ ret' = [ret EXCEPT ![t] = Append(@, elem[head_node_])]
                /\ life' = [life EXCEPT ![front_] = Free]
                /\ elem' = [elem EXCEPT ![front_] = 0]
                /\ mem' = [mem EXCEPT ![front_] = kNullNode,
                                      ![FrontAddr] = head_node_]
                /\ UNCHANGED nalloc
    /\ mtx_' = [mtx_ EXCEPT !.unique = FALSE]
    /\ pc' = [pc EXCEPT ![t] = "idle"]
    /\ UNCHANGED <<mutexFrame, x, new_node, ops, npush, done, phased,
                   empty_ret>>

\* empty, line 86: shared_lock(mtx_)
Mtx_EmptyLock(t) ==
    /\ kind = "QueueMutex"
    /\ pc[t] = "idle"
    /\ ops[t] < MaxOps
    /\ ~mtx_.unique
    /\ mtx_' = [mtx_ EXCEPT !.shared = @ \cup {t}]
    /\ ops' = [ops EXCEPT ![t] = @ + 1]
    /\ pc' = [pc EXCEPT ![t] = "mtx_empty"]
    /\ UNCHANGED <<mutexFrame, heapVars, x, new_node, histVars>>

\* empty, lines 88-91: return front_->next == nullptr; unlock
Mtx_Empty(t) ==
    /\ kind = "QueueMutex"
    /\ pc[t] = "mtx_empty"
    /\ empty_ret' = [empty_ret EXCEPT ![t] =
                        IF mem[front_] = kNullNode THEN "true" ELSE "false"]
    /\ mtx_' = [mtx_ EXCEPT !.shared = @ \ {t}]
    /\ pc' = [pc EXCEPT ![t] = "idle"]
    /\ UNCHANGED <<mutexFrame, heapVars, x, new_node, ops, npush, done, ret,
                   phased>>

Mtx_Step(t) ==
    \/ Mtx_PushBegin(t)
    \/ Mtx_PushLock(t)
    \/ Mtx_Push(t)
    \/ Mtx_PopLock(t)
    \/ Mtx_Pop(t)
    \/ Mtx_EmptyLock(t)
    \/ Mtx_Empty(t)

(***************************************************************************)
(* Sequences of calls that never overlap: a call is invoked only while no  *)
(* other call is in flight, on any of the three queues.                    *)
(***************************************************************************)
InitSeq ==
    \E k \in {"QueueCAS", "QueueMwCAS", "QueueMutex"} : QueueInit(k) /\ DriverIdle

\* thread t is the only one inside a call
Alone(t) == \A u \in Threads \ {t} : pc[u] = "idle"

NextSeq ==
    \/ \E t \in Threads : Alone(t) /\ QC_Step(t)
    \/ \E t \in Threads : Alone(t) /\ QM_Step(t)
    \/ \E t \in Threads : Alone(t) /\ Mtx_Step(t)
    \/ AdvanceEpoch
    \/ \E n \in NodeIds : Reclaim(n)

SpecSeq == InitSeq /\ [][NextSeq]_vars


\* the number of elements the pops of thread t have returned
RECURSIVE Some(_)
Some(r) == IF r = <<>> THEN 0 ELSE (IF Head(r) # None THEN 1 ELSE 0) + Some(Tail(r))

\* the elements taken out of the queue so far
Taken == SumOver(Threads, [t \in Threads |-> Some(ret[t])])

\* what the list behind the mutex holds when no call is in flight: the
\* values pushed (1, 2, ... in call order) without the ones taken
SeqPop == IF Cardinality(done) = Taken THEN None ELSE Taken + 1
SeqEmpty == IF Cardinality(done) = Taken THEN "true" ELSE "false"

\* thread t returns from pop / from empty in this step
PopReturns(t) == Len(ret'[t]) = Len(ret[t]) + 1
EmptyAnswers(t) ==
    pc[t] \in {"empty_load_next", "mtx_empty"} /\ pc'[t] = "idle"

\* C31: in a sequence of calls that never overlap, every pop and every
\* empty of QueueCAS, QueueMwCAS and QueueMutex returns what the
\* first-in first-out list of the values pushed so far yields: the three
\* queues return the same results
SequentialEquivalence ==
    [][\A t \in Threads :
          /\ PopReturns(t) => ret'[t][Len(ret'[t])] = SeqPop
          /\ EmptyAnswers(t) => empty_ret'[t] = SeqEmpty]_vars

\* a lock-free queue has answered empty() with false, returned an element
\* and returned None
SequentialEquivalenceWitness ==
    /\ kind \in {"QueueCAS", "QueueMwCAS"}
    /\ \E t \in Threads : empty_ret[t] = "false"
    /\ \E t \in Threads : \E i \in DOMAIN ret[t] : ret[t][i] # None
    /\ \E t \in Threads : \E i \in DOMAIN ret[t] : ret[t][i] = None


(***************************************************************************)
(* The split of exec_num_ over the worker threads (RunMwCASBench): the     *)
(* loop that spawns the threads, in the revision that keeps a running sum  *)
(* (src/mwcas_bench.hpp) and in the one that multiplies.                   *)
(***************************************************************************)
MaxSplitThreads == 6
MaxSplitExec == 13

\* the variables the loop does not touch
splitFrame == <<kind, thread_num_, exec_num_, benchVars, latencyVars,
                dequeVars, mtx_, genVars, queueVars, mem, pc, ops, mwVars,
                workerVars>>

\* mwcas_bench.hpp, lines 358-368: one iteration of the loop; i counts from 0
Split_Spawn ==
    /\ kind = "Split"
    /\ main_pc = "spawn"
    /\ Len(handed) < thread_num_
    /\ LET i == Len(handed)
           exec_num == IF i < thread_num_ - 1 THEN exec_num_ \div thread_num_
                       ELSE exec_num_ - sum_exec_num
       IN  /\ handed' = Append(handed, exec_num)
           /\ sum_exec_num' = sum_exec_num + exec_num
    /\ UNCHANGED splitFrame

\* a loop that hands the last thread exec_num_ % thread_num_
Split_SpawnModulo ==
    /\ kind = "SplitOld"
    /\ main_pc = "spawn"
    /\ Len(handed) < thread_num_
    /\ LET i == Len(handed)
           exec_num == IF i = thread_num_ - 1 THEN exec_num_ % thread_num_
                       ELSE exec_num_ \div thread_num_
       IN  /\ handed' = Append(handed, exec_num)
           /\ sum_exec_num' = sum_exec_num + exec_num
    /\ UNCHANGED splitFrame

\* part_024, lines 131-140: exec_num = exec_num_ / thread_num_ before the
\* loop; the last iteration sets it to exec_num_ - exec_num * (thread_num_ - 1)
Split_SpawnOld ==
    /\ kind = "SplitOld"
    /\ main_pc = "spawn"
    /\ Len(handed) < thread_num_
    /\ LET i == Len(handed)
           exec_num == IF i = thread_num_ - 1
                       THEN exec_num_
                                - (exec_num_ \div thread_num_) * (thread_num_ - 1)
                       ELSE exec_num_ \div thread_num_
       IN  /\ handed' = Append(handed, exec_num)
           /\ sum_exec_num' = sum_exec_num + exec_num
    /\ UNCHANGED splitFrame

\* the loop is left: line 369 (assert) and on to the lock of line 372
Split_Done ==
    /\ kind \in {"Split", "SplitOld"}
    /\ main_pc = "spawn"
    /\ Len(handed) = thread_num_
    /\ main_pc' = "lock_2nd"
    /\ UNCHANGED <<kind, thread_num_, exec_num_, prefer_writer, mutex_1st,
                   mutex_2nd, w_pc, w_exec, promise, results, latencyVars,
                   dequeVars, mtx_, splitVars, genVars, queueVars, mem, pc,
                   ops, mwVars, workerVars>>

\* every configuration the validators accept, up to the bounds: num_exec
\* and num_thread are only required to be non-zero
InitSplit ==
    /\ \E k \in {"Split", "SplitOld"} : QueueInit(k)
    /\ DequeIdle
    /\ thread_num_ \in 1..MaxSplitThreads
    /\ exec_num_ \in 1..MaxSplitExec
    /\ prefer_writer = FALSE
    /\ mutex_1st = [Unlocked EXCEPT !.unique = TRUE]
    /\ mutex_2nd = Unlocked
    /\ main_pc = "spawn"
    /\ w_pc = [w \in WorkerIds |-> "unborn"]
    /\ w_exec = [w \in WorkerIds |-> 0]
    /\ promise = {}
    /\ results = 0
    /\ latencies = [w \in WorkerIds |-> <<>>]
    /\ indexes = [w \in WorkerIds |-> 0]
    /\ count = 0
    /\ lat = [lat_0 |-> Unassigned, lat_90 |-> Unassigned, lat_95 |-> Unassigned,
              lat_99 |-> Unassigned, lat_100 |-> Unassigned]
    /\ ll_pc = "idle"
    /\ reported = <<>>

NextSplit ==
    \/ Split_Spawn
    \/ Split_SpawnOld
    \/ Split_Done

SpecSplit == InitSplit /\ [][NextSplit]_vars

\* the sum of a sequence
RECURSIVE SumSeq(_)
SumSeq(q) == IF q = <<>> THEN 0 ELSE Head(q) + SumSeq(Tail(q))

\* C32: for every num_exec >= 1 and num_thread >= 1 the counts handed to
\* the worker threads are never negative, once the loop is left they sum
\* to exec_num_ (the assert of line 369 holds), every thread but the last
\* got floor(exec_num_ / thread_num_) and the last one what was left
WorkSplit ==
    kind \in {"Split", "SplitOld"} =>
        /\ \A i \in DOMAIN handed : handed[i] >= 0
        /\ sum_exec_num = SumSeq(handed)
        /\ \A i \in DOMAIN handed :
              i < thread_num_ => handed[i] = exec_num_ \div thread_num_
        /\ main_pc = "lock_2nd" =>
              /\ Len(handed) = thread_num_
              /\ SumSeq(handed) = exec_num_
              /\ handed[thread_num_]
                    = exec_num_ - (thread_num_ - 1) * (exec_num_ \div thread_num_)

\* the loop has been left with more threads than operations, so that every
\* thread but the last got nothing
WorkSplitWitness ==
    /\ kind \in {"Split", "SplitOld"}
    /\ main_pc = "lock_2nd"
    /\ thread_num_ > exec_num_
    /\ thread_num_ > 1
    /\ handed[1] = 0
    /\ handed[thread_num_] = exec_num_

\* the loop has been left with a count the threads do not divide
WorkSplitUneven ==
    /\ kind \in {"Split", "SplitOld"}
    /\ main_pc = "lock_2nd"
    /\ exec_num_ % thread_num_ # 0
    /\ thread_num_ < exec_num_


\* worker w has left RunWorker: measurement, SortExecutionTimes and
\* set_value are behind it
Finished(w) == w_pc[w] = "exit" /\ w_exec[w] = ExecNum(w) /\ w \in promise

\* C33: main holds the result of a worker only when that worker has finished
\* its measurement and SortExecutionTimes, and it is past the loop of
\* future.get() (LogThroughput / LogLatency, delete) only when every worker
\* of the run has
ResultsAfterSort ==
    kind = "Bench" =>
        /\ \A w \in 1..results : Finished(w)
        /\ main_pc \in {"delete", "done"} =>
              /\ results = thread_num_
              /\ \A w \in BenchThreads : Finished(w)

\* main has obtained the first result while another worker, which passed
\* the barrier early, has not yet set its promise
ResultsAfterSortWitness ==
    /\ kind = "Bench"
    /\ main_pc = "get"
    /\ results >= 1
    /\ \E w \in BenchThreads : w_pc[w] \in {"sort", "set_value"}


\* QueueCAS: the node the list that starts at n ends with
RECURSIVE LastFrom(_, _)
LastFrom(n, k) ==
    IF k = 0 \/ mem[n] = kNullNode THEN n ELSE LastFrom(mem[n], k - 1)

\* the true tail: the last node linked behind front_
TrueLast == LastFrom(front_, MaxNode)

\* back_ designates a node that was not dropped and that is the true tail
\* or the node before it
BackNearTail ==
    /\ life[back_] # Free
    /\ back_ = TrueLast \/ mem[back_] = TrueLast

\* back_ only moves to the node linked behind the one it designated
BackForward == back_' # back_ => back_' = mem[back_]

\* a next link only changes from null to a node when it is the true tail's
LinkAtTail ==
    \A n \in NodeIds :
        (life[n] # Free /\ mem[n] = kNullNode /\ mem'[n] # kNullNode)
            => n = TrueLast

\* C34: in the Michael-Scott QueueCAS back_ designates the last linked node
\* or its immediate predecessor in every reachable state, it never moves
\* backwards, and a new node is only ever linked behind the true last node
BackLagsAtMostOne ==
    /\ [](kind = "QueueCAS" => BackNearTail)
    /\ [][kind = "QueueCAS" => (BackForward /\ LinkAtTail)]_vars

\* back_ lags: a node is linked behind the one it designates, and a pop has
\* already moved front_ past that one
BackLagsAtMostOneWitness ==
    /\ kind = "QueueCAS"
    /\ mem[back_] # kNullNode
    /\ front_ = mem[back_]


\* QueueMwCAS: the node the list that starts at n ends with, following the
\* values the next links stand for
RECURSIVE LogicalLastFrom(_, _)
LogicalLastFrom(n, k) ==
    IF k = 0 \/ Logical(n) = kNullNode THEN n
    ELSE LogicalLastFrom(Logical(n), k - 1)

LogicalTail == LogicalLastFrom(Logical(FrontAddr), MaxNode)

\* C35: in every reachable state of QueueMwCAS the value back_ stands for is
\* the last node reachable from front_ through the values of the next
\* links, the next of that node stands for null, and the node is neither
\* retired nor dropped (so front_ has not passed back_)
BackIsTail ==
    kind = "QueueMwCAS" =>
        /\ Logical(BackAddr) = LogicalTail
        /\ Logical(Logical(BackAddr)) = kNullNode
        /\ life[Logical(BackAddr)] = Live

\* a push has installed its descriptor in back_ and has not decided it,
\* while a pop of the other thread has advanced front_
BackIsTailWitness ==
    /\ kind = "QueueMwCAS"
    /\ IsDescriptor(mem[BackAddr])
    /\ desc[DecodeDescriptor(mem[BackAddr])].status = "Undecided"
    /\ front_ # 1


\* the fields operation o targets
TargetSet(o) == {o[k] : k \in DOMAIN o}

\* every worker is constructed and every operation of every worker targets
\* the fields S
AllTarget(S) ==
    /\ \A t \in Threads : pc[t] # "new"
    /\ \A t \in Threads : \A j \in DOMAIN operations_[t] :
          TargetSet(operations_[t][j]) = S

\* C36: when every operation of every Worker<MwCAS> targets the same set of
\* fields (all fields start at 0), the values protected reads return for
\* those fields are equal in every reachable state
SameTargetsSameValues ==
    kind = "WorkerMwCAS" =>
        \A S \in SUBSET Fields :
            AllTarget(S) => \A f, g \in S : Logical(f) = Logical(g)

\* the workers share a set of three fields, one operation has completed and
\* the descriptor of another is installed in one of the fields only
SameTargetsSameValuesWitness ==
    /\ kind = "WorkerMwCAS"
    /\ AllTarget(Fields)
    /\ \E t \in Threads : ops[t] >= 1
    /\ \E f, g \in Fields : IsDescriptor(mem[f]) /\ ~IsDescriptor(mem[g])
    /\ \E f \in Fields : Logical(f) >= 1


\* C37: LogLatency never indexes outside a worker's latency array: every
\* index the next iteration of the merge loop passes to GetLatency is in
\* [0, that worker's operation count), and no worker's index has been
\* decremented below zero
LatencyIndexInRange ==
    (kind = "Latency" /\ ll_pc \in {"loop", "done"}) =>
        \A w \in BenchThreads :
            /\ indexes[w] >= 0
            /\ (ll_pc = "loop" /\ InLoop) => indexes[w] < Len(latencies[w])


\* C38: when LogLatency leaves the merge loop and prints, lat_90, lat_95,
\* lat_99 and lat_100 have each been assigned
PercentilesAssigned ==
    (kind = "Latency" /\ ll_pc = "loop" /\ ~InLoop) =>
        /\ lat.lat_90 # Unassigned
        /\ lat.lat_95 # Unassigned
        /\ lat.lat_99 # Unassigned
        /\ lat.lat_100 # Unassigned


(***************************************************************************)
(* The constructor of Worker (src/worker.hpp, lines 277-308) step by step: *)
(* the loop that draws the targets of an operation from the Zipf           *)
(* generator, which returns an index in [0, num_field).                    *)
(***************************************************************************)

\* the variables the constructor does not touch
genFrame == <<kind, thread_num_, exec_num_, benchVars, latencyVars, dequeVars,
              mtx_, splitVars, target_field_num_, mwVars, mem, queueVars, ops,
              target_num_, idx, old_val, new_desc, wild>>

\* what zipf_engine(rand_engine) can return: the fields of the run, field
\* k standing for target_fields[k - 1]
ZipfFields == 1..target_field_num_

\* lines 296-300: draw an address; when it is among the targets chosen so
\* far the do-while loop draws again, else it becomes targets[j]
Gen_Draw(t) ==
    /\ kind = "Generate"
    /\ pc[t] = "new"
    /\ Len(operations_[t]) < operation_counts
    /\ Len(targets[t]) < target_num_
    /\ \E addr \in ZipfFields :
        targets' = [targets EXCEPT ![t] =
                       IF \E j \in DOMAIN @ : @[j] = addr THEN @
                       ELSE Append(@, addr)]
    /\ UNCHANGED <<genFrame, pc, operations_>>

\* lines 303-306: sort the whole array, whose slots from target_num on were
\* never written, and append the operation
Gen_Emplace(t) ==
    /\ kind = "Generate"
    /\ pc[t] = "new"
    /\ Len(operations_[t]) < operation_counts
    /\ Len(targets[t]) = target_num_
    /\ \E a \in [1..kMaxTargetNum -> Pointers] :
        /\ \A j \in 1..target_num_ : a[j] = targets[t][j]
        /\ operations_' = [operations_ EXCEPT ![t] =
                              Append(@, SubSeq(SortArray(a), 1, target_num_))]
    /\ targets' = [targets EXCEPT ![t] = <<>>]
    /\ UNCHANGED <<genFrame, pc>>

\* line 308: the constructor returns
Gen_Return(t) ==
    /\ kind = "Generate"
    /\ pc[t] = "new"
    /\ Len(operations_[t]) = operation_counts
    /\ pc' = [pc EXCEPT ![t] = "constructed"]
    /\ UNCHANGED <<genFrame, targets, operations_>>

Gen_Step(t) ==
    \/ Gen_Draw(t)
    \/ Gen_Emplace(t)
    \/ Gen_Return(t)

\* every configuration the validators of mwcas_bench.cpp accept, up to the
\* bounds: num_field >= 1 and 1 <= num_target <= kMaxTargetNum
InitGenerate ==
    /\ node_prev = [a \in Addrs |-> kNullNode]
    /\ front_mtx_ = 0
    /\ back_mtx_ = 0
    /\ mtx_ = Unlocked
    /\ sum_exec_num = 0
    /\ handed = <<>>
    /\ target_field_num_ \in 1..NumFields
    /\ targets = [t \in Threads |-> <<>>]
    /\ thread_num_ = 0
    /\ exec_num_ = 0
    /\ prefer_writer = FALSE
    /\ mutex_1st = Unlocked
    /\ mutex_2nd = Unlocked
    /\ main_pc = "idle"
    /\ w_pc = [w \in WorkerIds |-> "unborn"]
    /\ w_exec = [w \in WorkerIds |-> 0]
    /\ promise = {}
    /\ results = 0
    /\ latencies = [w \in WorkerIds |-> <<>>]
    /\ indexes = [w \in WorkerIds |-> 0]
    /\ count = 0
    /\ lat = [lat_0 |-> Unassigned, lat_90 |-> Unassigned, lat_95 |-> Unassigned,
              lat_99 |-> Unassigned, lat_100 |-> Unassigned]
    /\ ll_pc = "idle"
    /\ reported = <<>>
    /\ kind = "Generate"
    /\ target_num_ \in 1..kMaxTargetNum
    /\ mem = [a \in Addrs |-> 0]
    /\ elem = [n \in NodeIds |-> 0]
    /\ life = [n \in NodeIds |-> Free]
    /\ nalloc = 0
    /\ epoch_counter = 0
    /\ guard = [t \in Threads |-> NoGuard]
    /\ pc = [t \in Threads |-> "new"]
    /\ x = [t \in Threads |-> 0]
    /\ new_node = [t \in Threads |-> kNullNode]
    /\ back = [t \in Threads |-> kNullNode]
    /\ next = [t \in Threads |-> kNullNode]
    /\ front = [t \in Threads |-> kNullNode]
    /\ new_front = [t \in Threads |-> kNullNode]
    /\ desc = [d \in DescIds |-> NoDesc]
    /\ own = [t \in Threads |-> 0]
    /\ hstack = [t \in Threads |-> <<>>]
    /\ word = [t \in Threads |-> 0]
    /\ ops = [t \in Threads |-> 0]
    /\ stale = [t \in Threads |-> {}]
    /\ uaf = FALSE
    /\ npush = 0
    /\ done = {}
    /\ before = {}
    /\ ret = [t \in Threads |-> <<>>]
    /\ phased = TRUE
    /\ empty_ret = [t \in Threads |-> "none"]
    /\ operations_ = [t \in Threads |-> <<>>]
    /\ idx = [t \in Threads |-> 0]
    /\ old_val = [t \in Threads |-> 0]
    /\ new_desc = [t \in Threads |-> <<>>]
    /\ wild = FALSE
    /\ old_node = [t \in Threads |-> kNullNode]
    /\ prev_node = [t \in Threads |-> kNullNode]
    /\ tail_node = [t \in Threads |-> kNullNode]
    /\ dummy_node = [t \in Threads |-> kNullNode]
    /\ head_node = [t \in Threads |-> kNullNode]

NextGenerate == \E t \in Threads : Gen_Step(t)

SpecGenerate == InitGenerate /\ [][NextGenerate]_vars

\* every worker thread keeps running, and a generator that can return an
\* address that was not yet drawn eventually does
SpecGenerateFair == SpecGenerate /\ \A t \in Threads : WF_vars(Gen_Step(t))

\* C39: workload generation terminates for every accepted configuration:
\* every worker eventually leaves its constructor
GenerationTerminates == <>(\A t \in Threads : pc[t] = "constructed")

=============================================================================
